---- MODULE Spec2Model ----
(***************************************************************************)
(* Model of the actor physics component of the third-person template:      *)
(* Source/Actors/ActorPhysics.{h,cpp}.                                     *)
(*                                                                         *)
(* Numbers.  The C++ code computes in `float`.  The model computes in      *)
(* exact arithmetic: a float is a rational number n/d in lowest terms      *)
(* with d > 0, and the one non-number the code can produce, NaN (0/0), is  *)
(* the record with d = 0.  Square roots (Vector3::length, normalized) and  *)
(* the sin/cos/acos chain of rechargeStepClimbBudget are carried exactly   *)
(* as signed square roots of rationals ("surds") and angles given by their *)
(* sine and cosine; they are turned back into a float when the code adds   *)
(* them to another float.                                                  *)
(***************************************************************************)
EXTENDS Integers, Sequences, FiniteSets, TLC

\* ------------------------------------------------------------------------ \*
\* Bounds of the model

\* Physics ticks (skipped or not) in one run
MaxTicks == 2

\* Calls of QueueForce/QueueImpulse/QueueMovement in one run
MaxCalls == 1

\* Resolution to which an irrational square root is rounded down (1/SqrtDen)
SqrtDen == 16

\* ------------------------------------------------------------------------ \*
\* float: exact rationals plus NaN

\* The values of a float: n/d, and NaN with d = 0
Float == [n : Int, d : Nat]

Abs[n \in Int] == IF n < 0 THEN -n ELSE n

GCD[a \in Nat, b \in Nat] == IF b = 0 THEN a ELSE GCD[b, a % b]

\* The float n/d (d # 0), in lowest terms with a positive denominator
Rat[n \in Int, d \in Int] ==
  LET s == IF d < 0 THEN -1 ELSE 1
      g == GCD[Abs[n], Abs[d]]
  IN  [n |-> (s * n) \div g, d |-> (s * d) \div g]

Flt(n) == [n |-> n, d |-> 1]

\* The result of 0.0f / 0.0f
NaN == [n |-> 0, d |-> 0]

IsNaN(a) == a.d = 0

FAdd[a \in Float, b \in Float] ==
  IF IsNaN(a) \/ IsNaN(b) THEN NaN
  ELSE IF a.d = 1 /\ b.d = 1 THEN [n |-> a.n + b.n, d |-> 1]
  ELSE LET g == GCD[a.d, b.d]
       IN  Rat[a.n * (b.d \div g) + b.n * (a.d \div g), (a.d \div g) * b.d]

FNeg[a \in Float] == IF IsNaN(a) THEN NaN ELSE [n |-> -a.n, d |-> a.d]

FSub[a \in Float, b \in Float] == FAdd[a, FNeg[b]]

FMul[a \in Float, b \in Float] ==
  IF IsNaN(a) \/ IsNaN(b) THEN NaN
  ELSE IF a.d = 1 /\ b.d = 1 THEN [n |-> a.n * b.n, d |-> 1]
  ELSE LET g1 == GCD[Abs[a.n], b.d]
           g2 == GCD[Abs[b.n], a.d]
       IN  Rat[(a.n \div g1) * (b.n \div g2), (a.d \div g2) * (b.d \div g1)]

\* a / b.  The only division by zero the model meets is 0/0 (a zero vector
\* divided by its own length), which IEEE arithmetic answers with NaN.
FDiv[a \in Float, b \in Float] ==
  IF IsNaN(a) \/ IsNaN(b) \/ b.n = 0 THEN NaN
  ELSE FMul[a, Rat[b.d, b.n]]

\* an/ad < bn/bd for positive ad and bd, by whole parts and then by the
\* remainders (no product is formed, so none can leave the integers)
RLess[an \in Int, ad \in Nat, bn \in Int, bd \in Nat] ==
  LET qa == an \div ad
      qb == bn \div bd
      ra == an % ad
      rb == bn % bd
  IN  IF qa # qb THEN qa < qb
      ELSE IF rb = 0 THEN FALSE
      ELSE IF ra = 0 THEN TRUE
      ELSE RLess[bd, rb, ad, ra]

\* Comparisons: every comparison with NaN is false
FLess[a \in Float, b \in Float] == ~IsNaN(a) /\ ~IsNaN(b) /\ RLess[a.n, a.d, b.n, b.d]

FGreater[a \in Float, b \in Float] == FLess[b, a]

FGreaterEqual[a \in Float, b \in Float] == ~IsNaN(a) /\ ~IsNaN(b) /\ ~RLess[a.n, a.d, b.n, b.d]

FAbs[a \in Float] == [n |-> Abs[a.n], d |-> a.d]

\* ------------------------------------------------------------------------ \*
\* godot::Vector3

Vector3(x, y, z) == [x |-> x, y |-> y, z |-> z]

\* The values of a Vector3
Vector == [x : Float, y : Float, z : Float]

Vec(x, y, z) == Vector3(Flt(x), Flt(y), Flt(z))

VAdd[a \in Vector, b \in Vector] == Vector3(FAdd[a.x, b.x], FAdd[a.y, b.y], FAdd[a.z, b.z])

VSub[a \in Vector, b \in Vector] == Vector3(FSub[a.x, b.x], FSub[a.y, b.y], FSub[a.z, b.z])

VMul[a \in Vector, s \in Float] == Vector3(FMul[a.x, s], FMul[a.y, s], FMul[a.z, s])

VDiv[a \in Vector, s \in Float] == Vector3(FDiv[a.x, s], FDiv[a.y, s], FDiv[a.z, s])

dot[a \in Vector, b \in Vector] == FAdd[FAdd[FMul[a.x, b.x], FMul[a.y, b.y]], FMul[a.z, b.z]]

distance_squared_to[a \in Vector, b \in Vector] == dot[VSub[b, a], VSub[b, a]]

VIsNaN(a) == IsNaN(a.x) \/ IsNaN(a.y) \/ IsNaN(a.z)

\* ------------------------------------------------------------------------ \*
\* Square roots and angles, carried exactly

Sign(n) == IF n < 0 THEN -1 ELSE IF n = 0 THEN 0 ELSE 1

\* Largest k in lo..hi with k * k <= n, by bisection
SqrtBetween[n \in Nat, lo \in Nat, hi \in Nat] ==
  IF lo >= hi THEN lo
  ELSE LET mid == (lo + hi + 1) \div 2
       IN  IF mid * mid <= n THEN SqrtBetween[n, mid, hi]
           ELSE SqrtBetween[n, lo, mid - 1]

\* Largest k with k * k <= n
ISqrt[n \in Nat] == SqrtBetween[n, 0, IF n < 46340 THEN n ELSE 46340]

IsSquare[n \in Nat] == ISqrt[n] * ISqrt[n] = n

\* Square root of a float q >= 0: exact where q is the square of a rational,
\* rounded down to a multiple of 1/SqrtDen elsewhere
FSqrt[q \in Float] ==
  IF IsNaN(q) \/ q.n < 0 THEN NaN
  ELSE IF IsSquare[q.n] /\ IsSquare[q.d] THEN Rat[ISqrt[q.n], ISqrt[q.d]]
  ELSE Rat[ISqrt[(q.n * SqrtDen * SqrtDen) \div q.d], SqrtDen]

\* The real number sgn * sqrt(sq); sq is NaN for a NaN
Surd(sgn, sq) == [sgn |-> sgn, sq |-> sq]

SurdT == [sgn : {-1, 0, 1}, sq : Float]

SurdNaN == Surd(0, NaN)

SurdOne == Surd(1, Flt(1))

SIsNaN(s) == IsNaN(s.sq)

SMul[s \in SurdT, t \in SurdT] ==
  IF SIsNaN(s) \/ SIsNaN(t) THEN SurdNaN
  ELSE Surd(s.sgn * t.sgn, FMul[s.sq, t.sq])

\* The surd as a float
SFloat[s \in SurdT] ==
  IF SIsNaN(s) THEN NaN
  ELSE LET r == FSqrt[s.sq] IN [n |-> s.sgn * r.n, d |-> r.d]

\* Vector3::length(): sqrt(x*x + y*y + z*z)
length[v \in Vector] ==
  LET q == dot[v, v]
  IN  IF IsNaN(q) THEN SurdNaN ELSE Surd(IF q.n = 0 THEN 0 ELSE 1, q)

\* A vector v divided by a square root: v / over
Scaled(v, over) == [v |-> v, over |-> over]

ScaledT == [v : Vector, over : SurdT]

\* Vector3 / float where the float is a length: every component of a zero
\* vector divided by its zero length is 0/0 = NaN
VDivLength[v \in Vector, distance \in SurdT] ==
  IF SIsNaN(distance) \/ distance.sgn = 0
    THEN Scaled(Vector3(NaN, NaN, NaN), SurdOne)
    ELSE Scaled(v, distance)

\* Vector3::normalized(): the zero vector stays the zero vector
normalized[v \in Vector] ==
  LET l == length[v]
  IN  IF l.sgn = 0 THEN Scaled(v, SurdOne) ELSE Scaled(v, l)

\* Vector3::dot of two vectors that each carry a square-root divisor
SDot[a \in ScaledT, b \in ScaledT] ==
  LET r == dot[a.v, b.v]
  IN  IF IsNaN(r) \/ SIsNaN(a.over) \/ SIsNaN(b.over) THEN SurdNaN
      ELSE Surd(Sign(r.n), FDiv[FMul[r, r], FMul[a.over.sq, b.over.sq]])

\* An angle, given by its sine and its cosine
Angle(s, c) == [sin |-> s, cos |-> c]

AngleT == [sin : SurdT, cos : SurdT]

\* std::acos: the angle in [0, pi] with the given cosine; NaN outside [-1, 1]
acos[c \in SurdT] ==
  IF SIsNaN(c) \/ FGreater[c.sq, Flt(1)] THEN Angle(SurdNaN, SurdNaN)
  ELSE LET s2 == FSub[Flt(1), c.sq]
       IN  Angle(Surd(IF s2.n = 0 THEN 0 ELSE 1, s2), c)

\* Trigonometry::HalfPI - angle
HalfPIMinus[a \in AngleT] == Angle(a.cos, a.sin)

sin(a) == a.sin

cos(a) == a.cos

\* ------------------------------------------------------------------------ \*
\* ActorPhysics.cpp, anonymous namespace

\* Smallest velocity change the recorded velocity can be updated by
VelocityEpsilon == Rat[1, 10000]

clamp(value, min, max) ==
  IF FLess[value, min] THEN min
  ELSE IF FGreaterEqual[value, max] THEN max
  ELSE value

\* ------------------------------------------------------------------------ \*
\* ActorPhysics: the component's fields, as one record `this`

ZeroVector == Vec(0, 0, 0)

\* ActorPhysics::ActorPhysics() / ActorPhysics::_init(), with the properties
\* the editor can set (registered in _register_methods) as parameters
ActorPhysics(isAffectedByGravity, gravityVector, mass, useHighQualityIntegration) ==
  [ IsAffectedByGravity |-> isAffectedByGravity,
    GravityVector |-> gravityVector,
    GravityScale |-> Flt(1),
    Mass |-> mass,
    MaximumStepHeight |-> Rat[1, 4],
    Velocity |-> ZeroVector,
    UseHighQualityIntegration |-> useHighQualityIntegration,
    queuedForces |-> ZeroVector,
    queuedImpulses |-> ZeroVector,
    queuedMovement |-> ZeroVector,
    midPointVelocity |-> ZeroVector,
    stepClimbingBudget |-> Flt(0) ]

QueueMovement(this, movement) ==
  [this EXCEPT !.queuedMovement = VAdd[@, movement]]

QueueForce(this, force) ==
  [this EXCEPT !.queuedForces = VAdd[@, force]]

\* QueueImpulse adding to the forces
QueueImpulse_IntoForces(this, impulse) ==
  [this EXCEPT !.queuedForces = VAdd[@, impulse]]

QueueImpulse(this, impulse) ==
  [this EXCEPT !.queuedImpulses = VAdd[@, impulse]]

\* ApplyGravity with the mass left out of the force
ApplyGravity_NoMass(this, gravity) ==
  QueueForce(this, VMul[gravity, this.GravityScale])

ApplyGravity(this, gravity) ==
  QueueForce(this, VMul[VMul[gravity, this.Mass], this.GravityScale])

\* The messages handed to godot::Godot::print
RungeKuttaMessage == "ERROR: Runge-Kutta4 integration not implemented yet!"

NoBodyMessage == "ERROR: ActorPhysics component could not find its KinematicBody node"

\* integrateViaMidpointMethod with one slip, for the mutation checks:
\*   "keep"     the queued impulses are not reset
\*   "unscaled" the velocity is not scaled by deltaSeconds into the translation
\*   "whole"    the acceleration is not halved
\*   "late"     the carry is stored unscaled and scaled by the next tick's time
\*   "force"    impulses are turned into a force over one tick
\*   "scaled"   the queued movement is scaled by deltaSeconds as well
\*   "none"     no slip
integrateWithSlip(this, deltaSeconds, slip) ==
  LET carry == IF slip = "late" THEN VMul[this.midPointVelocity, deltaSeconds]
                                ELSE this.midPointVelocity
      velocity1 == VAdd[this.Velocity, carry]
      impulses == VDiv[this.queuedImpulses, this.Mass]
      velocity2 == IF slip = "force" THEN velocity1 ELSE VAdd[velocity1, impulses]
      forces == IF slip = "force"
                  THEN VAdd[VDiv[this.queuedForces, this.Mass], VDiv[impulses, deltaSeconds]]
                  ELSE VDiv[this.queuedForces, this.Mass]
      acceleration == IF slip = "whole" THEN forces ELSE VDiv[forces, Flt(2)]
      midPointVelocity == VMul[acceleration, deltaSeconds]
      velocity3 == VAdd[velocity2, midPointVelocity]
      moved == IF slip = "unscaled" THEN velocity3 ELSE VMul[velocity3, deltaSeconds]
      translation == IF slip = "scaled"
                       THEN VAdd[moved, VMul[this.queuedMovement, deltaSeconds]]
                       ELSE VAdd[moved, this.queuedMovement]
  IN  [ this |-> [this EXCEPT !.Velocity = velocity3,
                              !.midPointVelocity =
                                 IF slip = "late" THEN acceleration ELSE midPointVelocity,
                              !.queuedForces = ZeroVector,
                              !.queuedImpulses =
                                 IF slip = "keep" THEN @ ELSE ZeroVector,
                              !.queuedMovement = ZeroVector],
        translation |-> translation,
        print |-> << >> ]

integrateViaMidpointMethod_KeepsImpulses(this, deltaSeconds) ==
  integrateWithSlip(this, deltaSeconds, "keep")

integrateViaMidpointMethod_Unscaled(this, deltaSeconds) ==
  integrateWithSlip(this, deltaSeconds, "unscaled")

integrateViaMidpointMethod_NoHalving(this, deltaSeconds) ==
  integrateWithSlip(this, deltaSeconds, "whole")

integrateViaMidpointMethod_LateScaling(this, deltaSeconds) ==
  integrateWithSlip(this, deltaSeconds, "late")

integrateViaMidpointMethod_ImpulseAsForce(this, deltaSeconds) ==
  integrateWithSlip(this, deltaSeconds, "force")

integrateViaMidpointMethod_ScaledMovement(this, deltaSeconds) ==
  integrateWithSlip(this, deltaSeconds, "scaled")

integrateViaMidpointMethod_SkipsZeroTime(this, deltaSeconds) ==
  IF deltaSeconds = Flt(0)
    THEN [ this |-> this, translation |-> ZeroVector, print |-> << >> ]
    ELSE integrateWithSlip(this, deltaSeconds, "none")

integrateViaMidpointMethod(this, deltaSeconds) ==
  LET velocity1 == VAdd[this.Velocity, this.midPointVelocity]
      impulses == VDiv[this.queuedImpulses, this.Mass]
      velocity2 == VAdd[velocity1, impulses]
      acceleration == VDiv[VDiv[this.queuedForces, this.Mass], Flt(2)]
      midPointVelocity == VMul[acceleration, deltaSeconds]
      velocity3 == VAdd[velocity2, midPointVelocity]
      translation == VAdd[VMul[velocity3, deltaSeconds], this.queuedMovement]
  IN  [ this |-> [this EXCEPT !.Velocity = velocity3,
                              !.midPointVelocity = midPointVelocity,
                              !.queuedForces = ZeroVector,
                              !.queuedImpulses = ZeroVector,
                              !.queuedMovement = ZeroVector],
        translation |-> translation,
        print |-> << >> ]

\* integrateViaRungeKutta4Method with a scheme of its own: the whole
\* acceleration goes into the step
integrateViaRungeKutta4Method_OwnScheme(this, deltaSeconds) ==
  LET r == integrateWithSlip(this, deltaSeconds, "whole")
  IN  [r EXCEPT !.print = <<RungeKuttaMessage>> \o @]

integrateViaRungeKutta4Method(this, deltaSeconds) ==
  LET r == integrateViaMidpointMethod(this, deltaSeconds)
  IN  [r EXCEPT !.print = <<RungeKuttaMessage>> \o @]

\* KinematicBody::move_and_slide: the engine's collision-aware move.  It is
\* given the velocity to attempt and answers the velocity it achieved; what
\* stands in the way is the engine's matter, here one of a few cases.
Bodies == {"free", "floor"}

\* Bodies that are held back: by a wall across the x axis, which stops them
\* on that axis; by a slope, on which they lose 1/128 of their speed along x;
\* by mud, which leaves them 1/128 of their velocity
Obstructed == {"wall", "slope", "mud"}

nullptr == "nullptr"

move_and_slide(kinematicBody, velocity) ==
  CASE kinematicBody = "free" -> velocity
    [] kinematicBody = "floor" -> [velocity EXCEPT !.y = Flt(0)]
    [] kinematicBody = "wall" -> [velocity EXCEPT !.x = Flt(0)]
    [] kinematicBody = "slope" -> [velocity EXCEPT !.x = FMul[@, Rat[127, 128]]]
    [] kinematicBody = "mud" -> VMul[velocity, Rat[1, 128]]

moveActor(this, kinematicBody, translation, deltaSeconds) ==
  move_and_slide(kinematicBody, VDiv[translation, deltaSeconds])

\* rechargeStepClimbBudget with the angle measured from the gravity vector
\* instead of from the floor plane
rechargeStepClimbBudget_AngleToGravity(this, translation) ==
  LET distance == length[translation]
      direction == VDivLength[translation, distance]
      directionDotGravity == SDot[normalized[this.GravityVector], direction]
      angleToGravity == acos[directionDotGravity]
      verticalMovement == SFloat[SMul[sin(angleToGravity), distance]]
      horizontalMovement == SFloat[SMul[cos(angleToGravity), distance]]
      balance == FSub[horizontalMovement, verticalMovement]
  IN  [this EXCEPT !.stepClimbingBudget =
         clamp(FAdd[@, balance], FNeg[this.MaximumStepHeight], Flt(0))]

rechargeStepClimbBudget(this, translation) ==
  LET distance == length[translation]
      direction == VDivLength[translation, distance]
      directionDotGravity == SDot[normalized[this.GravityVector], direction]
      angleToFloorPlane == HalfPIMinus[acos[directionDotGravity]]
      verticalMovement == SFloat[SMul[sin(angleToFloorPlane), distance]]
      horizontalMovement == SFloat[SMul[cos(angleToFloorPlane), distance]]
      balance == FSub[horizontalMovement, verticalMovement]
  IN  [this EXCEPT !.stepClimbingBudget =
         clamp(FAdd[@, balance], FNeg[this.MaximumStepHeight], Flt(0))]

\* updateVelocity taking the reported velocity over however close it is
updateVelocity_Ungated(this, newVelocity, updateHorizontalVelocity) ==
  LET v1 == IF updateHorizontalVelocity
              THEN newVelocity
              ELSE [this.Velocity EXCEPT !.y = newVelocity.y]
      x == IF updateHorizontalVelocity /\ FLess[FAbs[newVelocity.x], VelocityEpsilon]
             THEN Flt(0) ELSE v1.x
      z == IF updateHorizontalVelocity /\ FLess[FAbs[newVelocity.z], VelocityEpsilon]
             THEN Flt(0) ELSE v1.z
      y == IF FLess[FAbs[newVelocity.y], VelocityEpsilon] THEN Flt(0) ELSE v1.y
  IN  [this EXCEPT !.Velocity = Vector3(x, y, z)]

\* updateVelocity dropping the midpoint carry where it takes the velocity over
updateVelocity_DropsCarry(this, newVelocity, updateHorizontalVelocity) ==
  LET far == FGreater[distance_squared_to[this.Velocity, newVelocity], VelocityEpsilon]
      v1 == IF far
              THEN IF updateHorizontalVelocity
                     THEN newVelocity
                     ELSE [this.Velocity EXCEPT !.y = newVelocity.y]
              ELSE this.Velocity
      x == IF updateHorizontalVelocity /\ FLess[FAbs[newVelocity.x], VelocityEpsilon]
             THEN Flt(0) ELSE v1.x
      z == IF updateHorizontalVelocity /\ FLess[FAbs[newVelocity.z], VelocityEpsilon]
             THEN Flt(0) ELSE v1.z
      y == IF FLess[FAbs[newVelocity.y], VelocityEpsilon] THEN Flt(0) ELSE v1.y
  IN  [this EXCEPT !.Velocity = Vector3(x, y, z),
                   !.midPointVelocity = IF far THEN ZeroVector ELSE @]

\* updateVelocity treating the horizontal axes as if updateHorizontalVelocity
\* were never set
updateVelocity_VerticalOnly(this, newVelocity, updateHorizontalVelocity) ==
  LET v1 == IF FGreater[distance_squared_to[this.Velocity, newVelocity], VelocityEpsilon]
              THEN [this.Velocity EXCEPT !.y = newVelocity.y]
              ELSE this.Velocity
      y == IF FLess[FAbs[newVelocity.y], VelocityEpsilon] THEN Flt(0) ELSE v1.y
  IN  [this EXCEPT !.Velocity = Vector3(v1.x, y, v1.z)]

\* updateVelocity leaving the recorded velocity as the integration left it
updateVelocity_Never(this, newVelocity, updateHorizontalVelocity) == this

\* updateVelocity clearing the near-zero axes only where it took the velocity over
updateVelocity_ZeroesOnlyOnUpdate(this, newVelocity, updateHorizontalVelocity) ==
  LET changed == FGreater[distance_squared_to[this.Velocity, newVelocity], VelocityEpsilon]
      cleared(old, new, enabled) ==
        IF changed /\ enabled /\ FLess[FAbs[new], VelocityEpsilon] THEN Flt(0)
        ELSE IF changed /\ enabled THEN new ELSE old
  IN  [this EXCEPT !.Velocity =
         Vector3(cleared(this.Velocity.x, newVelocity.x, updateHorizontalVelocity),
                 cleared(this.Velocity.y, newVelocity.y, TRUE),
                 cleared(this.Velocity.z, newVelocity.z, updateHorizontalVelocity))]

\* updateVelocity taking all three axes over whatever updateHorizontalVelocity says
updateVelocity_AlwaysHorizontal(this, newVelocity, updateHorizontalVelocity) ==
  LET v1 == IF FGreater[distance_squared_to[this.Velocity, newVelocity], VelocityEpsilon]
              THEN newVelocity
              ELSE this.Velocity
      x == IF updateHorizontalVelocity /\ FLess[FAbs[newVelocity.x], VelocityEpsilon]
             THEN Flt(0) ELSE v1.x
      z == IF updateHorizontalVelocity /\ FLess[FAbs[newVelocity.z], VelocityEpsilon]
             THEN Flt(0) ELSE v1.z
      y == IF FLess[FAbs[newVelocity.y], VelocityEpsilon] THEN Flt(0) ELSE v1.y
  IN  [this EXCEPT !.Velocity = Vector3(x, y, z)]

updateVelocity(this, newVelocity, updateHorizontalVelocity) ==
  LET v1 == IF FGreater[distance_squared_to[this.Velocity, newVelocity], VelocityEpsilon]
              THEN IF updateHorizontalVelocity
                     THEN newVelocity
                     ELSE [this.Velocity EXCEPT !.y = newVelocity.y]
              ELSE this.Velocity
      x == IF updateHorizontalVelocity /\ FLess[FAbs[newVelocity.x], VelocityEpsilon]
             THEN Flt(0) ELSE v1.x
      z == IF updateHorizontalVelocity /\ FLess[FAbs[newVelocity.z], VelocityEpsilon]
             THEN Flt(0) ELSE v1.z
      y == IF FLess[FAbs[newVelocity.y], VelocityEpsilon] THEN Flt(0) ELSE v1.y
  IN  [this EXCEPT !.Velocity = Vector3(x, y, z)]

\* body(local) for the local variable holding the value of the expression e
With(e, body(_)) == CHOOSE result \in { body(local) : local \in {e} } : TRUE

\* _physics_process dropping what is queued when it finds no kinematic body
physics_process_SkipClearsQueues(this, deltaSeconds, kinematicBody) ==
  IF kinematicBody = nullptr
    THEN [ this |-> [this EXCEPT !.queuedForces = ZeroVector,
                                 !.queuedImpulses = ZeroVector,
                                 !.queuedMovement = ZeroVector],
           skipped |-> TRUE, moved |-> << >>,
           print |-> <<NoBodyMessage>> ]
    ELSE
      With(IF this.IsAffectedByGravity
             THEN ApplyGravity(this, this.GravityVector)
             ELSE this,
      LAMBDA gravitated :
      With(IF gravitated.UseHighQualityIntegration
             THEN integrateViaRungeKutta4Method(gravitated, deltaSeconds)
             ELSE integrateViaMidpointMethod(gravitated, deltaSeconds),
      LAMBDA integration :
      With(moveActor(integration.this, kinematicBody, integration.translation, deltaSeconds),
      LAMBDA reportedVelocity :
      With(rechargeStepClimbBudget(integration.this, integration.translation),
      LAMBDA recharged :
        [ this |-> updateVelocity(recharged, reportedVelocity, TRUE),
          skipped |-> FALSE,
          gravitated |-> gravitated,
          integrated |-> integration.this,
          translation |-> integration.translation,
          moved |-> <<integration.translation>>,
          reportedVelocity |-> reportedVelocity,
          print |-> integration.print ]))))

\* _physics_process queuing gravity whether or not IsAffectedByGravity is set
physics_process_GravityAlways(this, deltaSeconds, kinematicBody) ==
  IF kinematicBody = nullptr
    THEN [ this |-> this, skipped |-> TRUE, moved |-> << >>,
           print |-> <<NoBodyMessage>> ]
    ELSE
      With(ApplyGravity(this, this.GravityVector),
      LAMBDA gravitated :
      With(IF gravitated.UseHighQualityIntegration
             THEN integrateViaRungeKutta4Method(gravitated, deltaSeconds)
             ELSE integrateViaMidpointMethod(gravitated, deltaSeconds),
      LAMBDA integration :
      With(moveActor(integration.this, kinematicBody, integration.translation, deltaSeconds),
      LAMBDA reportedVelocity :
      With(rechargeStepClimbBudget(integration.this, integration.translation),
      LAMBDA recharged :
        [ this |-> updateVelocity(recharged, reportedVelocity, TRUE),
          skipped |-> FALSE,
          gravitated |-> gravitated,
          integrated |-> integration.this,
          translation |-> integration.translation,
          moved |-> <<integration.translation>>,
          reportedVelocity |-> reportedVelocity,
          print |-> integration.print ]))))

\* _physics_process queuing gravity before it looks for the kinematic body
physics_process_GravityBeforeLookup(this, deltaSeconds, kinematicBody) ==
  With(IF this.IsAffectedByGravity
         THEN ApplyGravity(this, this.GravityVector)
         ELSE this,
  LAMBDA gravitated :
    IF kinematicBody = nullptr
      THEN [ this |-> gravitated, skipped |-> TRUE, moved |-> << >>,
             print |-> <<NoBodyMessage>> ]
      ELSE
        With(IF gravitated.UseHighQualityIntegration
               THEN integrateViaRungeKutta4Method(gravitated, deltaSeconds)
               ELSE integrateViaMidpointMethod(gravitated, deltaSeconds),
        LAMBDA integration :
        With(moveActor(integration.this, kinematicBody, integration.translation, deltaSeconds),
        LAMBDA reportedVelocity :
        With(rechargeStepClimbBudget(integration.this, integration.translation),
        LAMBDA recharged :
          [ this |-> updateVelocity(recharged, reportedVelocity, TRUE),
            skipped |-> FALSE,
            gravitated |-> gravitated,
            integrated |-> integration.this,
            translation |-> integration.translation,
            moved |-> <<integration.translation>>,
            reportedVelocity |-> reportedVelocity,
            print |-> integration.print ]))))

\* _physics_process recharging the step climbing budget from the movement the
\* engine reported instead of the translation attempted
physics_process_RechargesFromResult(this, deltaSeconds, kinematicBody) ==
  IF kinematicBody = nullptr
    THEN [ this |-> this, skipped |-> TRUE, moved |-> << >>,
           print |-> <<NoBodyMessage>> ]
    ELSE
      With(IF this.IsAffectedByGravity
             THEN ApplyGravity(this, this.GravityVector)
             ELSE this,
      LAMBDA gravitated :
      With(IF gravitated.UseHighQualityIntegration
             THEN integrateViaRungeKutta4Method(gravitated, deltaSeconds)
             ELSE integrateViaMidpointMethod(gravitated, deltaSeconds),
      LAMBDA integration :
      With(moveActor(integration.this, kinematicBody, integration.translation, deltaSeconds),
      LAMBDA reportedVelocity :
      With(rechargeStepClimbBudget(integration.this, VMul[reportedVelocity, deltaSeconds]),
      LAMBDA recharged :
        [ this |-> updateVelocity(recharged, reportedVelocity, TRUE),
          skipped |-> FALSE,
          gravitated |-> gravitated,
          integrated |-> integration.this,
          translation |-> integration.translation,
          moved |-> <<integration.translation>>,
          reportedVelocity |-> reportedVelocity,
          print |-> integration.print ]))))

\* ActorPhysics::_physics_process.  The answer is the component after the
\* tick together with what the tick went through: the component after the
\* gravity step and after the integration, the translation attempted, the
\* velocity the engine reported and the messages printed; `moved` lists the
\* translations moveActor was called with.
physics_process(this, deltaSeconds, kinematicBody) ==
  IF kinematicBody = nullptr
    THEN [ this |-> this, skipped |-> TRUE, moved |-> << >>,
           print |-> <<NoBodyMessage>> ]
    ELSE
      With(IF this.IsAffectedByGravity
             THEN ApplyGravity(this, this.GravityVector)
             ELSE this,
      LAMBDA gravitated :
      With(IF gravitated.UseHighQualityIntegration
             THEN integrateViaRungeKutta4Method(gravitated, deltaSeconds)
             ELSE integrateViaMidpointMethod(gravitated, deltaSeconds),
      LAMBDA integration :
      With(moveActor(integration.this, kinematicBody, integration.translation, deltaSeconds),
      LAMBDA reportedVelocity :
      With(rechargeStepClimbBudget(integration.this, integration.translation),
      LAMBDA recharged :
        [ this |-> updateVelocity(recharged, reportedVelocity, TRUE),
          skipped |-> FALSE,
          gravitated |-> gravitated,
          integrated |-> integration.this,
          translation |-> integration.translation,
          moved |-> <<integration.translation>>,
          reportedVelocity |-> reportedVelocity,
          print |-> integration.print ]))))

\* ------------------------------------------------------------------------ \*
\* CharacterController: the component's fields, as one record `this`

DefaultMaximumJumpCount == 1

\* What an uninitialized pointer may hold besides nullptr
garbage == "garbage"

\* CharacterController::CharacterController() / CharacterController::_init().
\* Neither sets inputManager; it is put in by the states that start a run.
CharacterController ==
  [ JumpHeight |-> Rat[1, 2],
    RunningSpeed |-> Rat[5, 2],
    SecondsToFullSpeed |-> Rat[3, 20],
    AirControlFactor |-> Flt(1),
    MaximumJumpCount |-> DefaultMaximumJumpCount,
    currentState |-> "Ground",
    remainingJumpCount |-> DefaultMaximumJumpCount,
    inputManager |-> nullptr ]

\* The pointer to a component that was not found, and the test for it
NoComponent == << >>

IsNullptr(component) == DOMAIN component = {}

\* Jump taking the character off the ground while jumps remain
Jump_TakesOff(this) ==
  IF this.remainingJumpCount > 0
    THEN [ this |-> [this EXCEPT !.currentState = "Air",
                                 !.remainingJumpCount = @ - 1],
           result |-> TRUE ]
    ELSE [ this |-> this, result |-> FALSE ]

Jump(this) == [ this |-> this, result |-> FALSE ]

\* godot::Vector2
Vector2(x, y) == [x |-> x, y |-> y]

\* Vector2::clamped: the vector shortened to the length len where it is longer
clamped(v, len) ==
  With(SFloat[length[Vector3(v.x, v.y, Flt(0))]],
  LAMBDA l :
    IF FGreater[l, Flt(0)] /\ FLess[len, l]
      THEN Vector2(FMul[FDiv[v.x, l], len], FMul[FDiv[v.y, l], len])
      ELSE v)

NoInputManagerMessage == "ERROR: CharacterController could not find the Godot InputManager"

NoSingletonMessage == "ERROR: CharacterController could not access Godot's input manager"

NoActorPhysicsMessage == "ERROR: CharacterController could not find its ActorPhysics"

\* CharacterController::getInputManager.  `singleton` is what
\* godot::Input::get_singleton() answers; where it answers nullptr the assert
\* ends the run unless the build has NDEBUG.
getInputManager(this, singleton, NDEBUG) ==
  IF this.inputManager = nullptr
    THEN [ this |-> [this EXCEPT !.inputManager = singleton],
           result |-> singleton,
           print |-> IF singleton = nullptr THEN <<NoSingletonMessage>> ELSE << >>,
           aborted |-> singleton = nullptr /\ ~NDEBUG ]
    ELSE [ this |-> this, result |-> this.inputManager, print |-> << >>,
           aborted |-> FALSE ]

\* accelerateToVelocity queuing the force that reaches the target velocity in
\* one tick, however large
accelerateToVelocity_Unclamped(actorPhysics, targetVelocity, acceleration, deltaSeconds) ==
  IF IsNullptr(actorPhysics)
    THEN [ actorPhysics |-> NoComponent, queued |-> << >>,
           print |-> <<NoActorPhysicsMessage>> ]
    ELSE
      With(Vector2(FDiv[FSub[targetVelocity.x, actorPhysics.Velocity.x], deltaSeconds],
                   FDiv[FSub[targetVelocity.y, actorPhysics.Velocity.z], deltaSeconds]),
      LAMBDA wanted :
      With(Vector3(FMul[wanted.x, actorPhysics.Mass], Flt(0),
                   FMul[wanted.y, actorPhysics.Mass]),
      LAMBDA force :
        [ actorPhysics |-> QueueForce(actorPhysics, force),
          queued |-> <<force>>,
          print |-> << >> ]))

\* CharacterController::accelerateToVelocity.  `actorPhysics` is the sibling
\* component getActorPhysics() finds, or nullptr.
accelerateToVelocity(actorPhysics, targetVelocity, acceleration, deltaSeconds) ==
  IF IsNullptr(actorPhysics)
    THEN [ actorPhysics |-> NoComponent, queued |-> << >>,
           print |-> <<NoActorPhysicsMessage>> ]
    ELSE
      With(Vector2(FDiv[FSub[targetVelocity.x, actorPhysics.Velocity.x], deltaSeconds],
                   FDiv[FSub[targetVelocity.y, actorPhysics.Velocity.z], deltaSeconds]),
      LAMBDA wanted :
      With(clamped(wanted, acceleration),
      LAMBDA limited :
      With(Vector3(FMul[limited.x, actorPhysics.Mass], Flt(0),
                   FMul[limited.y, actorPhysics.Mass]),
      LAMBDA force :
        [ actorPhysics |-> QueueForce(actorPhysics, force),
          queued |-> <<force>>,
          print |-> << >> ])))

\* CharacterController::handleHorizontalMovement.  `strength` is what
\* Input::get_action_strength answers for the four movement actions; through
\* an inputManager that was never set the call is undefined: it ends the run
\* or answers anything.
handleHorizontalMovement(this, actorPhysics, deltaSeconds, controlFactor, singleton, NDEBUG, strength, survives) ==
  With(getInputManager(this, singleton, NDEBUG),
  LAMBDA got :
    IF got.aborted \/ (got.result = garbage /\ ~survives)
      THEN [ this |-> got.this, actorPhysics |-> actorPhysics, queued |-> << >>,
             print |-> got.print, aborted |-> TRUE ]
    ELSE IF got.result = nullptr
      THEN [ this |-> got.this, actorPhysics |-> actorPhysics, queued |-> << >>,
             print |-> got.print \o <<NoInputManagerMessage>>, aborted |-> FALSE ]
    ELSE
      With(accelerateToVelocity(
             actorPhysics,
             Vector2(FMul[FSub[strength.move_right, strength.move_left],
                          this.RunningSpeed],
                     FMul[FSub[strength.move_backward, strength.move_forward],
                          this.RunningSpeed]),
             FMul[FDiv[this.RunningSpeed, this.SecondsToFullSpeed], controlFactor],
             deltaSeconds),
      LAMBDA r :
        [ this |-> got.this,
          actorPhysics |-> r.actorPhysics,
          queued |-> r.queued,
          print |-> got.print \o r.print,
          aborted |-> FALSE ]))

handleGroundMovement(this, actorPhysics, deltaSeconds, singleton, NDEBUG, strength, survives) ==
  [ handler |-> "handleGroundMovement" ] @@
  handleHorizontalMovement(this, actorPhysics, deltaSeconds, Flt(1),
                           singleton, NDEBUG, strength, survives)

handleAirMovement(this, actorPhysics, deltaSeconds, singleton, NDEBUG, strength, survives) ==
  [ handler |-> "handleAirMovement" ] @@
  handleHorizontalMovement(this, actorPhysics, deltaSeconds, this.AirControlFactor,
                           singleton, NDEBUG, strength, survives)

\* CharacterController::physics_process
controller_physics_process(this, actorPhysics, deltaSeconds, singleton, NDEBUG, strength, survives) ==
  CASE this.currentState = "Ground" ->
         handleGroundMovement(this, actorPhysics, deltaSeconds,
                              singleton, NDEBUG, strength, survives)
    [] this.currentState = "Air" ->
         handleAirMovement(this, actorPhysics, deltaSeconds,
                           singleton, NDEBUG, strength, survives)

\* ------------------------------------------------------------------------ \*
\* Geometry/Trigonometry.cpp: the constants, each the float its literal is
\* rounded to

HalfPI == Rat[13176795, 8388608]

PI == Rat[13176795, 4194304]

\* The literal is written after a minus sign
Tau == FNeg[Rat[13176795, 2097152]]

RadiansPerDegree == Rat[9370165, 536870912]

DegreesPerRadian == Rat[15019745, 262144]

ReadOnlyMessage == "ERROR: Constant is read-only and cannot be changed"

\* The properties _register_methods registers, by name
TrigonometryProperties ==
  {"half_pi", "pi", "tau", "radians_per_degree", "degrees_per_radian"}

\* Trigonometry::getHalfPI, getPI, getTau, getRadiansPerDegree and
\* getDegreesPerRadian, as the engine reaches them through the properties
Trigonometry_get(property) ==
  CASE property = "half_pi" -> HalfPI
    [] property = "pi" -> PI
    [] property = "tau" -> Tau
    [] property = "radians_per_degree" -> RadiansPerDegree
    [] property = "degrees_per_radian" -> DegreesPerRadian

\* Trigonometry::reportErrorWhenSettingConstant, the setter of all five
reportErrorWhenSettingConstant(scalar) == [ print |-> <<ReadOnlyMessage>> ]

\* std::fmod: x less the whole multiples of y in it, with the sign of x
fmod[x \in Float, y \in Float] ==
  IF IsNaN(x) \/ IsNaN(y) \/ y.n = 0 THEN NaN
  ELSE LET g == GCD[x.d, y.d]
           a == x.n * (y.d \div g)
           b == y.n * (x.d \div g)
           r == Abs[a] % Abs[b]
       IN  Rat[Sign(a) * r, (x.d \div g) * y.d]

\* ------------------------------------------------------------------------ \*
\* godot::Spatial, as far as the camera controller uses it.  The node keeps
\* its rotation as Euler angles (x pitch, y yaw, z roll) and its position; a
\* Basis is carried as the Euler angles it was built from, and a position as
\* a point plus an offset along the axes of a basis.

Origin(base, basis, local) == [ base |-> base, basis |-> basis, local |-> local ]

Spatial(rotation, origin) == [ rotation |-> rotation, origin |-> origin ]

\* A node as it is made: no rotation, at the origin
NewSpatial == Spatial(ZeroVector, Origin(ZeroVector, ZeroVector, ZeroVector))

\* An angle brought into -PI .. PI by whole turns, as atan2 answers it
wrap[a \in Float] ==
  IF FGreater[a, PI] THEN FSub[a, FMul[Flt(2), PI]]
  ELSE IF FLess[a, FNeg[PI]] THEN FAdd[a, FMul[Flt(2), PI]]
  ELSE a

\* Basis::get_euler: the Euler angles of the rotation, with the pitch in
\* -HalfPI .. HalfPI and yaw and roll in -PI .. PI
get_euler(basis) ==
  With(wrap[basis.x],
  LAMBDA x :
    IF FGreater[x, HalfPI]
      THEN Vector3(FSub[PI, x], wrap[FAdd[wrap[basis.y], PI]],
                   wrap[FAdd[wrap[basis.z], PI]])
    ELSE IF FLess[x, FNeg[HalfPI]]
      THEN Vector3(FSub[FNeg[PI], x], wrap[FAdd[wrap[basis.y], PI]],
                   wrap[FAdd[wrap[basis.z], PI]])
    ELSE Vector3(x, wrap[basis.y], wrap[basis.z]))

get_rotation(node) == node.rotation

set_rotation(node, euler) == [node EXCEPT !.rotation = euler]

get_transform(node) == [ basis |-> node.rotation, origin |-> node.origin ]

\* Spatial::set_transform: the rotation is read back from the basis
set_transform(node, transform) ==
  Spatial(get_euler(transform.basis), transform.origin)

\* Transform::translate: the origin moved along the axes of the basis
translate(transform, x, y, z) ==
  [transform EXCEPT !.origin = Origin(transform.origin, transform.basis, Vector3(x, y, z))]

\* ------------------------------------------------------------------------ \*
\* Cameras/ThirdPersonCameraController.cpp.  Its clamp is, word for word, the
\* clamp of ActorPhysics.cpp.

DefaultOffset == Vector3(Flt(0), Rat[3, 2], Flt(0))

DefaultRotationDegreesPerMickey == Vector2(Rat[1, 2], Rat[1, 2])

\* ThirdPersonCameraController::ThirdPersonCameraController() / _init()
ThirdPersonCameraController ==
  [ Offset |-> DefaultOffset,
    MouseWheelZoomSensitivity |-> Flt(1),
    MinimumDistance |-> Rat[5, 4],
    MaximumDistance |-> Flt(10),
    RotationDegreesPerMickey |-> DefaultRotationDegreesPerMickey ]

getYawAndPitchFromMouseMotion(this, relative) ==
  Vector2(FMul[FMul[relative.x, this.RotationDegreesPerMickey.x], RadiansPerDegree],
          FMul[FMul[relative.y, this.RotationDegreesPerMickey.y], RadiansPerDegree])

\* rotateCameraNode writing the pitch as it comes, without the clamp
rotateCameraNode_Unclamped(this, cameraNode, relative) ==
  With(getYawAndPitchFromMouseMotion(this, relative),
  LAMBDA relativeRotation :
  With(get_rotation(cameraNode),
  LAMBDA eulerAngles :
    set_rotation(cameraNode,
      Vector3(FSub[eulerAngles.x, relativeRotation.y],
              fmod[FSub[eulerAngles.y, relativeRotation.x], Tau],
              eulerAngles.z))))

\* ThirdPersonCameraController::rotateCameraNode; `relative` is what the
\* mouse motion event's get_relative() answers
rotateCameraNode(this, cameraNode, relative) ==
  With(getYawAndPitchFromMouseMotion(this, relative),
  LAMBDA relativeRotation :
  With(FSub[HalfPI, RadiansPerDegree],
  LAMBDA MaximumVerticalAngle :
  With(get_rotation(cameraNode),
  LAMBDA eulerAngles :
    set_rotation(cameraNode,
      Vector3(clamp(FSub[eulerAngles.x, relativeRotation.y],
                    FNeg[MaximumVerticalAngle], MaximumVerticalAngle),
              fmod[FSub[eulerAngles.y, relativeRotation.x], Tau],
              eulerAngles.z)))))

\* ThirdPersonCameraController::moveToOrbitPosition; `targetPosition` is the
\* origin of the target node's global transform
moveToOrbitPosition(this, cameraNode, targetPosition) ==
  With([get_transform(cameraNode) EXCEPT !.origin = VAdd[targetPosition, this.Offset]],
  LAMBDA cameraTransform :
    set_transform(cameraNode, translate(cameraTransform, Flt(0), Flt(0), Flt(3))))

\* ThirdPersonCameraController::processMouseMotion.  `cameraNode` and
\* `targetNode` are what GetCameraNode() and GetTargetNode() find, or nullptr.
processMouseMotion(this, cameraNode, targetNode, relative) ==
  IF IsNullptr(cameraNode)
    THEN [ cameraNode |-> NoComponent, rotated |-> << >> ]
    ELSE
      With(rotateCameraNode(this, cameraNode, relative),
      LAMBDA rotated :
        [ cameraNode |-> IF IsNullptr(targetNode) THEN rotated
                         ELSE moveToOrbitPosition(this, rotated, targetNode.origin),
          rotated |-> <<rotated.rotation>> ])

\* ThirdPersonCameraController::input.  An event that is no mouse motion is
\* carried as the empty tuple.
input(this, cameraNode, targetNode, inputEvent) ==
  IF inputEvent # << >>
    THEN processMouseMotion(this, cameraNode, targetNode, inputEvent.relative)
    ELSE [ cameraNode |-> cameraNode, rotated |-> << >> ]

\* ThirdPersonCameraController::process
process(this, cameraNode, targetNode, deltaSeconds) ==
  IF IsNullptr(cameraNode) \/ IsNullptr(targetNode)
    THEN cameraNode
    ELSE moveToOrbitPosition(this, cameraNode, targetNode.origin)

\* ------------------------------------------------------------------------ \*
\* The component in its scene: the engine ticks it, other components queue
\* forces, impulses and movements on it between the ticks

\* Values the editor properties and the callers' arguments are drawn from
GravitySet == { Vec(0, -2, 0) }

MassSet == { Flt(2) }

DeltaSet == { Flt(1), Rat[1, 2] }

ForceSet == { Vec(4, 0, 0), Vec(0, 4, 0) }

ImpulseSet == { Vec(0, 2, 0) }

MovementSet == { Vector3(Rat[1, 8], Flt(0), Flt(0)),
                 Vector3(Flt(0), Rat[1, 8], Flt(0)) }

VARIABLES
  actor,    \* the ActorPhysics component
  calls,    \* the queue calls since the last integration: <<[op, arg]>>
  history,  \* what each _physics_process call so far went through
  ncalls,   \* queue calls so far
  controller,  \* the CharacterController component
  cameraNode  \* the Spatial the camera controller turns

vars == <<actor, calls, history, ncalls, controller, cameraNode>>

Init ==
  /\ actor \in { ActorPhysics(a, g, m, h) :
                   a \in BOOLEAN, g \in GravitySet, m \in MassSet, h \in BOOLEAN }
  /\ calls = << >>
  /\ history = << >>
  /\ ncalls = 0
  /\ controller = CharacterController
  /\ cameraNode = NewSpatial

Called(op, arg) ==
  /\ ncalls < MaxCalls
  /\ ncalls' = ncalls + 1
  /\ calls' = Append(calls, [op |-> op, arg |-> arg])
  /\ UNCHANGED <<history, controller, cameraNode>>

Call_QueueForce ==
  \E force \in ForceSet :
    /\ actor' = QueueForce(actor, force)
    /\ Called("QueueForce", force)

Call_QueueImpulse ==
  \E impulse \in ImpulseSet :
    /\ actor' = QueueImpulse(actor, impulse)
    /\ Called("QueueImpulse", impulse)

Call_QueueMovement ==
  \E movement \in MovementSet :
    /\ actor' = QueueMovement(actor, movement)
    /\ Called("QueueMovement", movement)

\* The engine's physics tick while the kinematic body cannot be found
SkippedTick ==
  /\ Len(history) < MaxTicks
  /\ \E deltaSeconds \in DeltaSet :
       \E r \in { physics_process(actor, deltaSeconds, nullptr) } :
         /\ actor' = r.this
         /\ history' = Append(history,
              [ op |-> "skipped", calls |-> calls, moved |-> r.moved,
                print |-> r.print ])
  /\ UNCHANGED <<calls, ncalls, controller, cameraNode>>

\* The engine's physics tick with the kinematic body in place
Tick ==
  /\ Len(history) < MaxTicks
  /\ \E deltaSeconds \in DeltaSet, kinematicBody \in Bodies :
       \E r \in { physics_process(actor, deltaSeconds, kinematicBody) } :
         /\ actor' = r.this
         /\ history' = Append(history,
              [ op |-> "tick",
                deltaSeconds |-> deltaSeconds,
                kinematicBody |-> kinematicBody,
                before |-> actor,
                calls |-> calls,
                gravitated |-> r.gravitated,
                integrated |-> r.integrated,
                translation |-> r.translation,
                moved |-> r.moved,
                reportedVelocity |-> r.reportedVelocity,
                print |-> r.print ])
  /\ calls' = << >>
  /\ UNCHANGED <<ncalls, controller, cameraNode>>

Next ==
  \/ Call_QueueForce
  \/ Call_QueueImpulse
  \/ Call_QueueMovement
  \/ SkippedTick
  \/ Tick

Spec == Init /\ [][Next]_vars

\* ------------------------------------------------------------------------ \*
\* Vocabulary of the properties

\* The _physics_process calls that were not skipped, oldest first
Integrations == SelectSeq(history, LAMBDA h : h.op = "tick")

\* At least one tick has integrated
Integrated == Len(Integrations) >= 1

\* The most recent tick that integrated, and the one before it
Last == Integrations[Len(Integrations)]

Prev == Integrations[Len(Integrations) - 1]

\* Sum of the arguments of the calls of one queue operation in a call log
RECURSIVE SumArgs(_, _)
SumArgs(op, log) ==
  IF log = << >> THEN ZeroVector
  ELSE LET rest == SumArgs(op, Tail(log))
       IN  IF Head(log).op = op THEN VAdd[Head(log).arg, rest] ELSE rest

\* ------------------------------------------------------------------------ \*
\* Step-climb budget

\* value clamped into lo .. hi, written with comparisons of its own
Within(value, lo, hi) ==
  IF FSub[value, lo].n < 0 THEN lo ELSE IF FSub[hi, value].n < 0 THEN hi ELSE value

\* The budget is a number in [-MaximumStepHeight, 0]
BudgetInRange(this) ==
  /\ ~IsNaN(this.stepClimbingBudget)
  /\ FSub[this.stepClimbingBudget, FNeg[this.MaximumStepHeight]].n >= 0
  /\ this.stepClimbingBudget.n <= 0

\* C1: after every rechargeStepClimbBudget call, whatever translations were
\* attempted, stepClimbingBudget lies in [-MaximumStepHeight, 0].
\* (The budget changes in rechargeStepClimbBudget only, so this is its value
\* after every call.)
StepClimbBudgetBounds == BudgetInRange(actor)

\* The translation points straight against gravity / lies in the floor plane
ClimbsStraightUp(translation, gravity) ==
  /\ translation # ZeroVector
  /\ translation.x = Flt(0) /\ translation.z = Flt(0)
  /\ gravity.x = Flt(0) /\ gravity.z = Flt(0)
  /\ translation.y.n * gravity.y.n < 0

MovesHorizontally(translation, gravity) ==
  /\ translation # ZeroVector
  /\ dot[translation, gravity] = Flt(0)
  /\ gravity # ZeroVector

\* Length of a translation along one axis
AxisLength(translation) ==
  FAdd[FAdd[FAbs[translation.x], FAbs[translation.y]], FAbs[translation.z]]

OnOneAxis(translation) ==
  Cardinality({ c \in {"x", "y", "z"} : translation[c] # Flt(0) }) = 1

\* C2: a recharge with a translation of length d straight against gravity
\* lowers the budget by d (clamped at -MaximumStepHeight); one with a
\* translation of length d in the floor plane raises it by d (clamped at 0).
StepClimbRates ==
  Integrated =>
    LET t == Last.translation
        d == AxisLength(t)
        b == Last.integrated.stepClimbingBudget
        lo == FNeg[actor.MaximumStepHeight]
    IN  (OnOneAxis(t) /\ BudgetInRange(Last.integrated)) =>
          /\ ClimbsStraightUp(t, actor.GravityVector) =>
               actor.stepClimbingBudget = Within(FSub[b, d], lo, Flt(0))
          /\ MovesHorizontally(t, actor.GravityVector) =>
               actor.stepClimbingBudget = Within(FAdd[b, d], lo, Flt(0))

\* The half of C2 that the code does keep: horizontal movement recharges
StepClimbHorizontalRate ==
  Integrated =>
    LET t == Last.translation
        b == Last.integrated.stepClimbingBudget
    IN  (OnOneAxis(t) /\ BudgetInRange(Last.integrated)
           /\ MovesHorizontally(t, actor.GravityVector)) =>
          actor.stepClimbingBudget =
            Within(FAdd[b, AxisLength(t)], FNeg[actor.MaximumStepHeight], Flt(0))

\* ------------------------------------------------------------------------ \*
\* Integration

IsZero(v) == v = ZeroVector

QueuesEmpty(this) ==
  /\ IsZero(this.queuedForces)
  /\ IsZero(this.queuedImpulses)
  /\ IsZero(this.queuedMovement)

\* C3: right after every integration step, under either scheme, the three
\* queues are zero, and from then on each queue holds the sum of what was
\* queued since that step and nothing of what was queued before it.
QueuesClearedByIntegration ==
  Integrated =>
    /\ QueuesEmpty(Last.integrated)
    /\ actor.queuedForces = SumArgs("QueueForce", calls)
    /\ actor.queuedImpulses = SumArgs("QueueImpulse", calls)
    /\ actor.queuedMovement = SumArgs("QueueMovement", calls)

\* A step of the high-quality scheme has consumed a queued impulse
QueuesClearedWitness ==
  /\ Integrated
  /\ calls = << >>
  /\ Last.before.UseHighQualityIntegration
  /\ ~IsZero(Last.before.queuedImpulses)
  /\ QueuesEmpty(actor)

\* C4: Integrate with all three queues zero and the midpoint carry zero
\* returns translation = v * dt, leaves the velocity v and the carry zero.
ConservationUnderNoForces ==
  Integrated =>
    ((QueuesEmpty(Last.gravitated) /\ IsZero(Last.before.midPointVelocity)) =>
       /\ Last.translation = VMul[Last.before.Velocity, Last.deltaSeconds]
       /\ Last.integrated.Velocity = Last.before.Velocity
       /\ IsZero(Last.integrated.midPointVelocity))

\* A moving actor coasts through a half-second tick
ConservationWitness ==
  /\ Integrated
  /\ QueuesEmpty(Last.gravitated)
  /\ IsZero(Last.before.midPointVelocity)
  /\ ~IsZero(Last.before.Velocity)
  /\ Last.deltaSeconds = Rat[1, 2]
  /\ ~IsZero(Last.translation)

\* C5: one Integrate(dt) with queued force F, mass m, prior carry c and
\* queued impulse J changes the velocity by c + J/m + (F/m) * 0.5 * dt and
\* sets the carry to (F/m) * 0.5 * dt; from rest with only gravity queued the
\* velocity is half of g * gravityScale * dt and the carry is the other half.
\* (Stated multiplied through by 2m, so no division is shared with the code.)
MidpointStep ==
  Integrated =>
    LET m2 == FMul[Flt(2), Last.before.Mass]
        F == Last.gravitated.queuedForces
        J == Last.gravitated.queuedImpulses
        c == Last.before.midPointVelocity
        dt == Last.deltaSeconds
        change == VSub[Last.integrated.Velocity, Last.before.Velocity]
    IN  /\ VMul[VSub[change, c], m2] = VAdd[VMul[J, Flt(2)], VMul[F, dt]]
        /\ VMul[Last.integrated.midPointVelocity, m2] = VMul[F, dt]
        /\ ( /\ Last.before.IsAffectedByGravity
             /\ QueuesEmpty(Last.before)
             /\ IsZero(Last.before.Velocity) /\ IsZero(c) ) =>
             /\ Last.integrated.Velocity = Last.integrated.midPointVelocity
             /\ VAdd[Last.integrated.Velocity, Last.integrated.midPointVelocity]
                  = VMul[VMul[Last.before.GravityVector, Last.before.GravityScale], dt]

\* A half-second step with a carry, an impulse and a force all at work
MidpointStepWitness ==
  /\ Integrated
  /\ ~IsZero(Last.before.midPointVelocity)
  /\ ~IsZero(Last.gravitated.queuedImpulses)
  /\ ~IsZero(Last.gravitated.queuedForces)
  /\ Last.before.Mass = Flt(2)
  /\ Last.deltaSeconds = Rat[1, 2]

\* At least two ticks have integrated
IntegratedTwice == Len(Integrations) >= 2

\* C6: with tick durations that vary, a force F queued for a tick of
\* duration dt_k has contributed (F/m) * dt_k to the velocity once the next
\* tick has integrated, whatever that tick's duration (the reconciler having
\* left the velocity alone in between).  The velocity after the later step is
\* the velocity before the earlier one, plus the earlier carry and impulse,
\* plus the whole of the earlier force over dt_k, plus the later step's own
\* impulse and half force.  (Multiplied through by 2m.)
ForceOverVaryingTicks ==
  IntegratedTwice =>
    (Last.before.Velocity = Prev.integrated.Velocity =>
       LET m2 == FMul[Flt(2), Last.before.Mass]
           earlier == VAdd[VMul[VAdd[Prev.before.Velocity, Prev.before.midPointVelocity], m2],
                           VAdd[VMul[Prev.gravitated.queuedImpulses, Flt(2)],
                                VMul[VMul[Prev.gravitated.queuedForces, Flt(2)],
                                     Prev.deltaSeconds]]]
           later == VAdd[VMul[Last.gravitated.queuedImpulses, Flt(2)],
                         VMul[Last.gravitated.queuedForces, Last.deltaSeconds]]
       IN  VMul[Last.integrated.Velocity, m2] = VAdd[earlier, later])

\* A force integrated over a one-second tick, followed by a half-second tick
ForceOverVaryingTicksWitness ==
  /\ IntegratedTwice
  /\ Last.before.Velocity = Prev.integrated.Velocity
  /\ ~IsZero(Prev.gravitated.queuedForces)
  /\ Prev.deltaSeconds = Flt(1)
  /\ Last.deltaSeconds = Rat[1, 2]

\* C7: the velocity change an impulse J causes in Integrate is J/m for every
\* deltaSeconds, and the impulse leaves nothing in the midpoint carry: what
\* the step adds to the velocity beyond the old and the new carry is J/m, and
\* without a force the new carry is zero.
ImpulseIsTimeIndependent ==
  Integrated =>
    LET change == VSub[Last.integrated.Velocity, Last.before.Velocity]
        carries == VAdd[Last.before.midPointVelocity, Last.integrated.midPointVelocity]
    IN  /\ VMul[VSub[change, carries], Last.before.Mass] = Last.gravitated.queuedImpulses
        /\ IsZero(Last.gravitated.queuedForces) => IsZero(Last.integrated.midPointVelocity)

\* An impulse alone, integrated over a half-second tick
ImpulseWitness ==
  /\ Integrated
  /\ ~IsZero(Last.gravitated.queuedImpulses)
  /\ IsZero(Last.gravitated.queuedForces)
  /\ Last.deltaSeconds = Rat[1, 2]
  /\ Last.before.Mass = Flt(2)

\* Masses an otherwise identical actor is given
TwinMasses == { Flt(1), Flt(2), Flt(3) }

\* ApplyGravity(g) followed by Integrate(dt) on the component `this` as it
\* would be with mass m
GravityStep(this, m, deltaSeconds) ==
  integrateViaMidpointMethod(
    ApplyGravity([this EXCEPT !.Mass = m], this.GravityVector), deltaSeconds)

SameOutcome(r1, r2) ==
  /\ r1.this.Velocity = r2.this.Velocity
  /\ r1.this.midPointVelocity = r2.this.midPointVelocity
  /\ r1.translation = r2.translation

\* C8 as stated: two actor states identical but for their masses end
\* ApplyGravity(g); Integrate(dt) with the same velocity, carry and translation.
MassInvariance ==
  (Integrated /\ Last.before.IsAffectedByGravity) =>
    \A m \in TwinMasses :
      SameOutcome(GravityStep(Last.before, m, Last.deltaSeconds),
                  [this |-> Last.integrated, translation |-> Last.translation])

\* C8 amended: ... provided no force and no impulse is queued beforehand
MassInvarianceOfGravity ==
  (Integrated /\ Last.before.IsAffectedByGravity) =>
    ((IsZero(Last.before.queuedForces) /\ IsZero(Last.before.queuedImpulses)) =>
       \A m \in TwinMasses :
         SameOutcome(GravityStep(Last.before, m, Last.deltaSeconds),
                     [this |-> Last.integrated, translation |-> Last.translation]))

\* Gravity alone has acted on a moving actor of mass 2 with a movement queued
MassInvarianceWitness ==
  /\ Integrated
  /\ Last.before.IsAffectedByGravity
  /\ IsZero(Last.before.queuedForces) /\ IsZero(Last.before.queuedImpulses)
  /\ ~IsZero(Last.before.queuedMovement)
  /\ ~IsZero(Last.before.Velocity)
  /\ Last.before.Mass = Flt(2)
  /\ ~IsZero(Last.integrated.midPointVelocity)

\* C9: the translation Integrate returns is the velocity after the step's
\* updates times deltaSeconds, plus the sum of the movements queued since the
\* previous step, these being scaled neither by deltaSeconds nor by mass.
TranslationOfStep ==
  Integrated =>
    Last.translation =
      VAdd[VMul[Last.integrated.Velocity, Last.deltaSeconds],
           SumArgs("QueueMovement", Last.calls)]

\* A movement queued on a moving actor of mass 2, half-second tick
TranslationWitness ==
  /\ Integrated
  /\ ~IsZero(SumArgs("QueueMovement", Last.calls))
  /\ ~IsZero(Last.integrated.Velocity)
  /\ Last.deltaSeconds = Rat[1, 2]
  /\ Last.before.Mass = Flt(2)

\* C10: after a tick in which the engine performs the attempted move
\* unobstructed, the recorded Velocity is what the same tick would have
\* recorded with no movement queued.
MovementBypassesVelocity ==
  (Integrated /\ Last.kinematicBody = "free") =>
    actor.Velocity =
      physics_process([Last.before EXCEPT !.queuedMovement = ZeroVector],
                      Last.deltaSeconds, "free").this.Velocity

\* ------------------------------------------------------------------------ \*
\* The operations of the component one at a time: each is applied to a
\* component in a state of its own choosing, with arguments of its own

\* Operations applied in one run
MaxSteps == 2

\* Values of Velocity, of the midpoint carry and of the step climbing budget
\* the component is found with
VelocitySet ==
  { ZeroVector,
    Vector3(Rat[1, 160], Rat[1, 160], Rat[1, 160]),
    Vector3(Flt(1), Flt(-1), Flt(0)),
    Vector3(Rat[1, 160], Flt(1), Flt(0)) }

CarrySet == { ZeroVector, Vec(0, -1, 0) }

BudgetSet == { Flt(0), Rat[-1, 4] }

\* Velocities the engine reports
ReportedVelocitySet ==
  { Vector3(Rat[1, 10240], Rat[1, 10240], Rat[1, 160]),
    Vec(1, 1, 1),
    Vector3(Rat[1, 160], Flt(1), Rat[1, 10240]),
    Vector3(Rat[1, 80], Rat[1, 160], Rat[1, 160]) }

\* Translations the integration step hands on: of length MaximumStepHeight,
\* two in the floor plane, one straight up and one straight down, and a
\* shorter one in the floor plane
TranslationSet ==
  { Vector3(Rat[1, 4], Flt(0), Flt(0)),
    Vector3(Rat[3, 20], Flt(0), Rat[1, 5]),
    Vector3(Flt(0), Rat[1, 4], Flt(0)),
    Vector3(Flt(0), Rat[-1, 4], Flt(0)),
    Vector3(Flt(0), Flt(0), Rat[-1, 8]) }

Init_Operations ==
  /\ actor \in { [ActorPhysics(TRUE, g, m, FALSE) EXCEPT
                     !.Velocity = v, !.midPointVelocity = c, !.stepClimbingBudget = b] :
                   g \in GravitySet, m \in {Flt(2)},
                   v \in VelocitySet, c \in CarrySet, b \in BudgetSet }
  /\ calls = << >>
  /\ history = << >>
  /\ ncalls = 0
  /\ controller = CharacterController
  /\ cameraNode = NewSpatial

\* One more operation may be applied
MayStep == Len(history) + ncalls < MaxSteps

Apply_updateVelocity ==
  /\ MayStep
  /\ \E newVelocity \in ReportedVelocitySet, updateHorizontalVelocity \in BOOLEAN :
       /\ actor' = updateVelocity(actor, newVelocity, updateHorizontalVelocity)
       /\ history' = Append(history,
            [ op |-> "updateVelocity",
              before |-> actor,
              newVelocity |-> newVelocity,
              updateHorizontalVelocity |-> updateHorizontalVelocity ])
  /\ UNCHANGED <<calls, ncalls, controller, cameraNode>>

Apply_rechargeStepClimbBudget ==
  /\ MayStep
  /\ \E translation \in TranslationSet :
       /\ actor' = rechargeStepClimbBudget(actor, translation)
       /\ history' = Append(history,
            [ op |-> "rechargeStepClimbBudget",
              before |-> actor,
              translation |-> translation ])
  /\ UNCHANGED <<calls, ncalls, controller, cameraNode>>

\* Durations the integration step is given
StepDeltaSet == { Flt(0), Rat[1, 2] }

Apply_integrateViaMidpointMethod ==
  /\ MayStep
  /\ \E deltaSeconds \in StepDeltaSet :
       \E r \in { integrateViaMidpointMethod(actor, deltaSeconds) } :
         /\ actor' = r.this
         /\ history' = Append(history,
              [ op |-> "integrateViaMidpointMethod",
                before |-> actor,
                calls |-> calls,
                deltaSeconds |-> deltaSeconds,
                translation |-> r.translation ])
  /\ calls' = << >>
  /\ UNCHANGED <<ncalls, controller, cameraNode>>

\* A call of one of the queue operations
Queued(op, arg) ==
  /\ MayStep
  /\ ncalls' = ncalls + 1
  /\ calls' = Append(calls, [op |-> op, arg |-> arg])
  /\ UNCHANGED <<history, controller, cameraNode>>

Apply_QueueForce ==
  \E force \in ForceSet :
    /\ actor' = QueueForce(actor, force)
    /\ Queued("QueueForce", force)

Apply_QueueImpulse ==
  \E impulse \in ImpulseSet :
    /\ actor' = QueueImpulse(actor, impulse)
    /\ Queued("QueueImpulse", impulse)

Apply_QueueMovement ==
  \E movement \in MovementSet :
    /\ actor' = QueueMovement(actor, movement)
    /\ Queued("QueueMovement", movement)

Next_Operations ==
  \/ Apply_updateVelocity
  \/ Apply_rechargeStepClimbBudget
  \/ Apply_integrateViaMidpointMethod
  \/ Apply_QueueForce
  \/ Apply_QueueImpulse
  \/ Apply_QueueMovement

Spec_Operations == Init_Operations /\ [][Next_Operations]_vars

\* The operation applied last
LastOp == history[Len(history)]

Applied(op) == history # << >> /\ LastOp.op = op

\* ------------------------------------------------------------------------ \*
\* Velocity reconciler

\* The squared distance of two velocities exceeds the epsilon threshold
ExceedsEpsilon(v, w) ==
  LET dx == FSub[v.x, w.x]
      dy == FSub[v.y, w.y]
      dz == FSub[v.z, w.z]
      sq == FAdd[FAdd[FMul[dx, dx], FMul[dy, dy]], FMul[dz, dz]]
  IN  sq.n > sq.d \div 10000

\* The magnitude of a component is below the zero threshold
BelowZeroThreshold(c) == Abs[c.n] <= (c.d - 1) \div 10000

Axes == {"x", "y", "z"}

\* The axes updateVelocity may clear: the vertical one, and the horizontal
\* ones when updateHorizontalVelocity is set
Clearable(axis, updateHorizontalVelocity) == axis = "y" \/ updateHorizontalVelocity

\* C11: when the squared distance between the recorded and the reported
\* velocity does not exceed epsilon, updateVelocity leaves every axis as it
\* was, except the clearable axes whose reported component is below the zero
\* threshold, which become exactly zero.
ReconcilerDriftSuppression ==
  Applied("updateVelocity") =>
    LET old == LastOp.before.Velocity
        new == LastOp.newVelocity
    IN  ~ExceedsEpsilon(old, new) =>
          \A axis \in Axes :
            actor.Velocity[axis] =
              IF Clearable(axis, LastOp.updateHorizontalVelocity)
                   /\ BelowZeroThreshold(new[axis])
                THEN Flt(0) ELSE old[axis]

\* A velocity within epsilon of the recorded one cleared one axis and left
\* another, nonzero one alone
ReconcilerDriftWitness ==
  /\ Applied("updateVelocity")
  /\ ~ExceedsEpsilon(LastOp.before.Velocity, LastOp.newVelocity)
  /\ LastOp.before.Velocity # LastOp.newVelocity
  /\ \E axis \in Axes :
       LastOp.before.Velocity[axis] # Flt(0) /\ actor.Velocity[axis] = Flt(0)
  /\ \E axis \in Axes :
       /\ actor.Velocity[axis] # Flt(0)
       /\ actor.Velocity[axis] # LastOp.newVelocity[axis]

\* C12 as stated: when the squared distance exceeds epsilon, updateVelocity
\* replaces all three axes with the reported velocity if
\* updateHorizontalVelocity is set, and otherwise only the vertical axis.
ReconcilerTakesOver ==
  Applied("updateVelocity") =>
    LET old == LastOp.before.Velocity
        new == LastOp.newVelocity
    IN  ExceedsEpsilon(old, new) =>
          \A axis \in Axes :
            actor.Velocity[axis] =
              IF Clearable(axis, LastOp.updateHorizontalVelocity)
                THEN new[axis] ELSE old[axis]

\* C12 amended: ... the axes taken over whose reported component is below
\* the zero threshold become exactly zero instead.
ReconcilerTakesOverOrClears ==
  Applied("updateVelocity") =>
    LET old == LastOp.before.Velocity
        new == LastOp.newVelocity
    IN  ExceedsEpsilon(old, new) =>
          \A axis \in Axes :
            actor.Velocity[axis] =
              IF Clearable(axis, LastOp.updateHorizontalVelocity)
                THEN IF BelowZeroThreshold(new[axis]) THEN Flt(0) ELSE new[axis]
                ELSE old[axis]

\* The vertical axis alone was taken over from a velocity beyond epsilon
ReconcilerTakesOverWitness ==
  /\ Applied("updateVelocity")
  /\ ExceedsEpsilon(LastOp.before.Velocity, LastOp.newVelocity)
  /\ ~LastOp.updateHorizontalVelocity
  /\ actor.Velocity.y = LastOp.newVelocity.y
  /\ actor.Velocity.y # LastOp.before.Velocity.y
  /\ actor.Velocity.x # LastOp.newVelocity.x
  /\ actor.Velocity.x = LastOp.before.Velocity.x

\* ------------------------------------------------------------------------ \*
\* High-quality integration

\* The state a tick that integrated has just left: nothing was queued and no
\* tick was skipped since
JustIntegrated ==
  /\ Integrated
  /\ calls = << >>
  /\ history[Len(history)].op = "tick"

\* The tick integrated last, as the same component runs it with the other
\* value of UseHighQualityIntegration
OtherScheme ==
  physics_process([Last.before EXCEPT !.UseHighQualityIntegration = ~@],
                  Last.deltaSeconds, Last.kinematicBody)

\* Two components agree in velocity, midpoint carry and queues
SameMotionState(a, b) ==
  /\ a.Velocity = b.Velocity
  /\ a.midPointVelocity = b.midPointVelocity
  /\ a.queuedForces = b.queuedForces
  /\ a.queuedImpulses = b.queuedImpulses
  /\ a.queuedMovement = b.queuedMovement

\* C13: a tick of an actor with UseHighQualityIntegration set produces the
\* translation, and ends in the velocity, midpoint carry and queues, of the
\* same tick of the same actor with the flag cleared; they differ in the
\* message printed only.  (Every tick of every run: equal states stay equal.)
HighQualityEqualsBaseline ==
  JustIntegrated =>
    LET other == OtherScheme
    IN  /\ other.translation = Last.translation
        /\ other.reportedVelocity = Last.reportedVelocity
        /\ SameMotionState(other.integrated, Last.integrated)
        /\ other.this.Velocity = actor.Velocity
        /\ other.this.stepClimbingBudget = actor.stepClimbingBudget
        /\ Last.print = IF Last.before.UseHighQualityIntegration
                          THEN <<RungeKuttaMessage>> ELSE << >>

\* A high-quality tick has integrated a force and a carry over half a second
HighQualityWitness ==
  /\ IntegratedTwice
  /\ JustIntegrated
  /\ Last.before.UseHighQualityIntegration
  /\ Last.print = <<RungeKuttaMessage>>
  /\ ~IsZero(Last.before.midPointVelocity)
  /\ ~IsZero(Last.gravitated.queuedForces)
  /\ ~IsZero(Last.translation)
  /\ Last.deltaSeconds = Rat[1, 2]

\* ------------------------------------------------------------------------ \*
\* The sequence of a tick

\* The component with gravity queued on it as a force
WithGravityQueued(this) ==
  [this EXCEPT !.queuedForces =
     VAdd[@, VMul[VMul[this.GravityVector, this.Mass], this.GravityScale]]]

\* The integration step of the component's scheme
Integrate(this, deltaSeconds) ==
  IF this.UseHighQualityIntegration
    THEN integrateViaRungeKutta4Method(this, deltaSeconds)
    ELSE integrateViaMidpointMethod(this, deltaSeconds)

\* C14: in every tick that is not skipped gravity is queued first (if
\* enabled), the integration step then runs on the queues with the gravity in
\* them, moveActor is called exactly once, with the integrator's translation,
\* the step climbing budget is updated from that attempted translation (not
\* from what the engine reported), and the velocity the integration left is
\* reconciled with what the engine reported.
TickSequence ==
  JustIntegrated =>
    LET queued == IF Last.before.IsAffectedByGravity
                    THEN WithGravityQueued(Last.before) ELSE Last.before
        integration == Integrate(queued, Last.deltaSeconds)
    IN  /\ Last.gravitated = queued
        /\ Last.integrated = integration.this
        /\ Last.translation = integration.translation
        /\ Last.moved = <<integration.translation>>
        /\ Last.reportedVelocity =
             move_and_slide(Last.kinematicBody,
                            VDiv[integration.translation, Last.deltaSeconds])
        /\ actor.stepClimbingBudget =
             rechargeStepClimbBudget(integration.this,
                                     integration.translation).stepClimbingBudget
        /\ actor.Velocity =
             updateVelocity(integration.this, Last.reportedVelocity, TRUE).Velocity

\* A tick with gravity on a floor: the engine reports another movement than
\* the one attempted, and the budget follows the one attempted
TickSequenceWitness ==
  /\ JustIntegrated
  /\ Last.before.IsAffectedByGravity
  /\ Last.kinematicBody = "floor"
  /\ Last.deltaSeconds = Rat[1, 2]
  /\ VMul[Last.reportedVelocity, Last.deltaSeconds] # Last.translation
  /\ ~IsZero(Last.reportedVelocity)
  /\ actor.stepClimbingBudget #
       rechargeStepClimbBudget(Last.integrated,
         VMul[Last.reportedVelocity, Last.deltaSeconds]).stepClimbingBudget
  /\ actor.Velocity # Last.integrated.Velocity

\* ------------------------------------------------------------------------ \*
\* Ticks without a kinematic body

\* The step is a tick that did not find the kinematic body
SkippedStep ==
  /\ Len(history') = Len(history) + 1
  /\ history'[Len(history')].op = "skipped"

\* The tick of this record went through the whole sequence
FullTick(h) ==
  LET queued == IF h.before.IsAffectedByGravity
                  THEN WithGravityQueued(h.before) ELSE h.before
  IN  /\ h.gravitated = queued
      /\ h.integrated = Integrate(queued, h.deltaSeconds).this
      /\ h.moved = <<h.translation>>
      /\ QueuesEmpty(h.integrated)

\* A tick that did not find the body moved nothing and printed the error,
\* and a tick after it that finds the body goes through the whole sequence
SkippedThenFull ==
  \A i \in 1..Len(history) :
    history[i].op = "skipped" =>
      /\ history[i].moved = << >>
      /\ history[i].print = <<NoBodyMessage>>
      /\ (i < Len(history) /\ history[i + 1].op = "tick") => FullTick(history[i + 1])

\* C15: a tick that cannot find the kinematic body is skipped: moveActor is
\* not called, no gravity is queued, and velocity, midpoint carry and step
\* climbing budget (the whole component) stay as they are; the body is looked
\* for again in every later tick, and the first tick that finds it goes
\* through the whole sequence.
SkippedTickChangesNothing ==
  /\ [][SkippedStep => actor' = actor]_vars
  /\ []SkippedThenFull

\* A tick was skipped with gravity enabled and a force queued, and the tick
\* after it found the body and moved the actor
SkippedTickWitness ==
  /\ Len(history) = 2
  /\ history[1].op = "skipped"
  /\ history[2].op = "tick"
  /\ history[2].before.IsAffectedByGravity
  /\ ~IsZero(history[2].before.queuedForces)
  /\ history[2].moved # << >>
  /\ ~IsZero(history[2].translation)

\* ------------------------------------------------------------------------ \*
\* Recharge of the step climbing budget

\* C16: a recharge with an attempted translation of zero length is a no-op:
\* stepClimbingBudget keeps the value it had (and is a number, nothing having
\* been divided by the zero distance).
RechargeZeroIsNoOp ==
  (Integrated /\ IsZero(Last.translation)) =>
    /\ actor.stepClimbingBudget = Last.integrated.stepClimbingBudget
    /\ ~IsNaN(actor.stepClimbingBudget)

\* The translation lies in the floor plane and is as long as the step height
HorizontalOfStepHeight(translation, this) ==
  /\ FAdd[FAdd[FMul[translation.x, this.GravityVector.x],
               FMul[translation.y, this.GravityVector.y]],
          FMul[translation.z, this.GravityVector.z]] = Flt(0)
  /\ FAdd[FAdd[FMul[translation.x, translation.x],
               FMul[translation.y, translation.y]],
          FMul[translation.z, translation.z]]
       = FMul[this.MaximumStepHeight, this.MaximumStepHeight]

\* C17: from stepClimbingBudget = -MaximumStepHeight, one recharge with a
\* translation in the floor plane of length MaximumStepHeight leaves the
\* budget at exactly 0.
FullHorizontalRecharge ==
  Applied("rechargeStepClimbBudget") =>
    (( /\ LastOp.before.stepClimbingBudget = FNeg[LastOp.before.MaximumStepHeight]
       /\ HorizontalOfStepHeight(LastOp.translation, LastOp.before) ) =>
       actor.stepClimbingBudget = Flt(0))

\* An exhausted budget was recharged by a translation across both horizontal
\* axes
FullHorizontalRechargeWitness ==
  /\ Applied("rechargeStepClimbBudget")
  /\ LastOp.before.stepClimbingBudget = Rat[-1, 4]
  /\ LastOp.before.MaximumStepHeight = Rat[1, 4]
  /\ HorizontalOfStepHeight(LastOp.translation, LastOp.before)
  /\ LastOp.translation.x # Flt(0)
  /\ LastOp.translation.z # Flt(0)
  /\ actor.stepClimbingBudget = Flt(0)

\* ------------------------------------------------------------------------ \*
\* Integration over no time

\* C18 as stated: integrateViaMidpointMethod with deltaSeconds = 0 returns
\* the zero translation, adds the previous carry and the queued impulses
\* divided by mass to the velocity, and stores the new carry, which is zero.
ZeroTimeStep ==
  (Applied("integrateViaMidpointMethod") /\ LastOp.deltaSeconds = Flt(0)) =>
    /\ IsZero(LastOp.translation)
    /\ VMul[VSub[VSub[actor.Velocity, LastOp.before.Velocity],
                  LastOp.before.midPointVelocity], LastOp.before.Mass]
         = LastOp.before.queuedImpulses
    /\ IsZero(actor.midPointVelocity)

\* C18 amended: ... returns the queued movement as the translation (the zero
\* translation where none is queued) ...
ZeroTimeStepMovesQueuedOnly ==
  (Applied("integrateViaMidpointMethod") /\ LastOp.deltaSeconds = Flt(0)) =>
    /\ LastOp.translation = LastOp.before.queuedMovement
    /\ IsZero(LastOp.before.queuedMovement) => IsZero(LastOp.translation)
    /\ VMul[VSub[VSub[actor.Velocity, LastOp.before.Velocity],
                  LastOp.before.midPointVelocity], LastOp.before.Mass]
         = LastOp.before.queuedImpulses
    /\ IsZero(actor.midPointVelocity)

\* A moving component with a carry and an impulse queued was integrated over
\* no time
ZeroTimeStepWitness ==
  /\ Applied("integrateViaMidpointMethod")
  /\ LastOp.deltaSeconds = Flt(0)
  /\ ~IsZero(LastOp.before.Velocity)
  /\ ~IsZero(LastOp.before.midPointVelocity)
  /\ ~IsZero(LastOp.before.queuedImpulses)
  /\ IsZero(LastOp.translation)
  /\ IsZero(actor.queuedImpulses)

\* ------------------------------------------------------------------------ \*
\* Queue operations

\* The accumulator of a queue operation
AccumulatorOf(op) ==
  CASE op = "QueueForce" -> "queuedForces"
    [] op = "QueueImpulse" -> "queuedImpulses"
    [] op = "QueueMovement" -> "queuedMovement"

\* The step is a call of a queue operation
QueueStep == ncalls' = ncalls + 1

\* The call the step makes
ThisCall == calls'[Len(calls')]

\* Each accumulator is the sum of the arguments of its operation's calls
\* since the last integration step, in whatever order they were made
AccumulatorsAreSums ==
  /\ actor.queuedForces = SumArgs("QueueForce", calls)
  /\ actor.queuedImpulses = SumArgs("QueueImpulse", calls)
  /\ actor.queuedMovement = SumArgs("QueueMovement", calls)

\* C19: QueueForce, QueueImpulse and QueueMovement add their argument to
\* their own accumulator and change nothing else; for any number of calls
\* between two integration steps, in any order and interleaving, each
\* accumulator is the sum of the arguments passed to its operation.
QueuesAccumulate ==
  /\ []AccumulatorsAreSums
  /\ [][QueueStep =>
          actor' = [actor EXCEPT ![AccumulatorOf(ThisCall.op)] = VAdd[@, ThisCall.arg]]]_vars

\* Two forces and, in between or around them, nothing else: both orders of
\* the two calls end in the same sum
QueuesAccumulateWitness ==
  /\ Len(calls) = 2
  /\ calls[1].op = "QueueForce" /\ calls[2].op = "QueueForce"
  /\ calls[1].arg = Vec(0, 4, 0) /\ calls[2].arg = Vec(4, 0, 0)
  /\ actor.queuedForces = Vec(4, 4, 0)
  /\ IsZero(actor.queuedImpulses)

\* ------------------------------------------------------------------------ \*
\* The character controller in its scene: the engine ticks it, the game
\* calls Jump

\* What Input::get_action_strength answers for the four movement actions
Strength(move_right, move_left, move_backward, move_forward) ==
  [ move_right |-> move_right, move_left |-> move_left,
    move_backward |-> move_backward, move_forward |-> move_forward ]

StrengthSet ==
  { Strength(Flt(0), Flt(0), Flt(0), Flt(0)),
    Strength(Flt(1), Flt(0), Flt(0), Flt(0)),
    Strength(Flt(0), Flt(0), Flt(0), Flt(1)),
    Strength(Rat[3, 5], Flt(0), Rat[4, 5], Flt(0)) }

\* What godot::Input::get_singleton() answers, and whether the build has
\* NDEBUG
EnvironmentSet ==
  { [singleton |-> "Input", NDEBUG |-> TRUE],
    [singleton |-> nullptr, NDEBUG |-> TRUE],
    [singleton |-> nullptr, NDEBUG |-> FALSE] }

ControllerDeltaSet == { Rat[1, 2] }

Init_Controller ==
  /\ controller \in { [CharacterController EXCEPT !.MaximumJumpCount = j,
                                                   !.SecondsToFullSpeed = s,
                                                   !.inputManager = i] :
                        j \in {0, 2}, s \in {Rat[3, 20], Flt(1)},
                        i \in {nullptr, garbage} }
  /\ actor \in { [ActorPhysics(FALSE, g, Flt(2), FALSE) EXCEPT !.Velocity = v] :
                   g \in GravitySet, v \in {ZeroVector, Vec(1, 0, 0)} }
  /\ calls = << >>
  /\ history = << >>
  /\ ncalls = 0
  /\ cameraNode = NewSpatial

\* The run has not been ended by an assert or by a call through a pointer
\* that was never set
Running == IF history = << >> THEN TRUE ELSE ~history[Len(history)].aborted

Controller_Jump ==
  /\ Running
  /\ Len(history) < MaxSteps
  /\ \E r \in { Jump(controller) } :
       /\ controller' = r.this
       /\ history' = Append(history,
            [ op |-> "Jump", before |-> controller, result |-> r.result,
              aborted |-> FALSE ])
  /\ UNCHANGED <<actor, calls, ncalls, cameraNode>>

Controller_physics_process ==
  /\ Running
  /\ Len(history) < MaxSteps
  /\ \E deltaSeconds \in ControllerDeltaSet,
        strength \in StrengthSet,
        found \in BOOLEAN,
        environment \in IF controller.inputManager = nullptr
                          THEN EnvironmentSet
                          ELSE {[singleton |-> "Input", NDEBUG |-> TRUE]},
        survives \in IF controller.inputManager = garbage THEN BOOLEAN ELSE {TRUE} :
       \E r \in { controller_physics_process(
                     controller, IF found THEN actor ELSE NoComponent, deltaSeconds,
                     environment.singleton, environment.NDEBUG, strength, survives) } :
         /\ controller' = r.this
         /\ actor' = IF found THEN r.actorPhysics ELSE actor
         /\ calls' = calls \o [i \in 1..Len(r.queued) |->
                                 [op |-> "QueueForce", arg |-> r.queued[i]]]
         /\ ncalls' = ncalls + Len(r.queued)
         /\ history' = Append(history,
              [ op |-> "physics_process",
                before |-> controller,
                actorPhysics |-> IF found THEN actor ELSE NoComponent,
                deltaSeconds |-> deltaSeconds,
                strength |-> strength,
                handler |-> r.handler,
                queued |-> r.queued,
                print |-> r.print,
                aborted |-> r.aborted ])
  /\ UNCHANGED cameraNode

Next_Controller ==
  \/ Controller_Jump
  \/ Controller_physics_process

Spec_Controller == Init_Controller /\ [][Next_Controller]_vars

\* ------------------------------------------------------------------------ \*
\* Jumping

\* The step is a call of Jump
JumpStep ==
  /\ Len(history') = Len(history) + 1
  /\ history'[Len(history')].op = "Jump"

\* The character is on the ground with the jumps it was constructed with,
\* every Jump so far has answered false and every tick has gone to the
\* ground movement
NeverOffTheGround ==
  /\ controller.currentState = "Ground"
  /\ controller.remainingJumpCount = DefaultMaximumJumpCount
  /\ \A i \in 1..Len(history) :
       /\ history[i].op = "Jump" => history[i].result = FALSE
       /\ history[i].op = "physics_process" =>
            history[i].handler = "handleGroundMovement"

\* C20: Jump() answers false in every reachable controller state and changes
\* nothing; so currentState is Ground and remainingJumpCount has its initial
\* value in every reachable state, and handleAirMovement is never run.
JumpAlwaysFails ==
  /\ []NeverOffTheGround
  /\ [][JumpStep => (controller' = controller /\ actor' = actor)]_vars

\* A controller allowed two jumps was asked to jump, and its next tick moved
\* it as on the ground
JumpAlwaysFailsWitness ==
  /\ Len(history) = 2
  /\ history[1].op = "Jump"
  /\ history[1].before.MaximumJumpCount = 2
  /\ history[1].before.remainingJumpCount > 0
  /\ history[2].op = "physics_process"
  /\ history[2].handler = "handleGroundMovement"
  /\ history[2].queued # << >>

\* ------------------------------------------------------------------------ \*
\* The camera controller in its scene: the engine hands it input events and
\* frames, and scripts read and write the Trigonometry properties

\* Rotations the camera node has when the controller first meets it
PitchSet == { Flt(0), Flt(2) }

YawSet == { Flt(0), Flt(3) }

RollSet == { Flt(0), Rat[1, 4] }

\* What get_relative() answers, in mickeys
RelativeSet ==
  { Vector2(Flt(64), Flt(64)),
    Vector2(Flt(1024), Flt(-128)),
    Vector2(Flt(-64), Flt(128)) }

\* Input events: mouse motions, and one that is no mouse motion
EventSet == { [relative |-> relative] : relative \in RelativeSet } \cup { << >> }

\* What GetTargetNode() finds
TargetSet == { NoComponent, [origin |-> Vec(1, 0, 2)] }

Init_Cameras ==
  /\ cameraNode \in { Spatial(Vector3(x, y, z), NewSpatial.origin) :
                        x \in PitchSet, y \in YawSet, z \in RollSet }
  /\ actor = ActorPhysics(FALSE, Vec(0, -2, 0), Flt(2), FALSE)
  /\ calls = << >>
  /\ history = << >>
  /\ ncalls = 0
  /\ controller = CharacterController

\* A script reads one of the Trigonometry properties
Get_property ==
  /\ Len(history) < MaxSteps
  /\ \E property \in TrigonometryProperties :
       history' = Append(history,
         [ op |-> "get", property |-> property, result |-> Trigonometry_get(property) ])
  /\ UNCHANGED <<actor, calls, ncalls, controller, cameraNode>>

\* A script assigns to one of the Trigonometry properties
Set_property ==
  /\ Len(history) < MaxSteps
  /\ \E r \in { reportErrorWhenSettingConstant(Flt(0)) } :
       history' = Append(history, [ op |-> "set", print |-> r.print ])
  /\ UNCHANGED <<actor, calls, ncalls, controller, cameraNode>>

Camera_input ==
  /\ Len(history) < MaxSteps
  /\ \E inputEvent \in EventSet, found \in BOOLEAN, targetNode \in TargetSet :
       \E r \in { input(ThirdPersonCameraController,
                        IF found THEN cameraNode ELSE NoComponent,
                        targetNode, inputEvent) } :
         /\ cameraNode' = IF found THEN r.cameraNode ELSE cameraNode
         /\ history' = Append(history,
              [ op |-> "input",
                inputEvent |-> inputEvent,
                before |-> cameraNode,
                rotated |-> r.rotated,
                after |-> IF found THEN r.cameraNode ELSE cameraNode ])
  /\ UNCHANGED <<actor, calls, ncalls, controller>>

Camera_process ==
  /\ Len(history) < MaxSteps
  /\ \E found \in BOOLEAN, targetNode \in TargetSet :
       /\ cameraNode' = IF found
                          THEN process(ThirdPersonCameraController, cameraNode,
                                       targetNode, Rat[1, 2])
                          ELSE cameraNode
       /\ history' = Append(history, [ op |-> "process", before |-> cameraNode ])
  /\ UNCHANGED <<actor, calls, ncalls, controller>>

Next_Cameras ==
  \/ Get_property
  \/ Set_property
  \/ Camera_input
  \/ Camera_process

Spec_Cameras == Init_Cameras /\ [][Next_Cameras]_vars

\* ------------------------------------------------------------------------ \*
\* Trigonometric constants

\* C21: the public constant Tau equals twice the constant PI, and four times
\* the constant HalfPI: whatever reads tau gets twice what reading pi gives.
TauIsTwicePI ==
  \A i \in 1..Len(history) :
    (history[i].op = "get" /\ history[i].property = "tau") =>
      /\ history[i].result = FMul[Flt(2), Trigonometry_get("pi")]
      /\ history[i].result = FMul[Flt(4), Trigonometry_get("half_pi")]

\* ------------------------------------------------------------------------ \*
\* Mouse-driven rotation of the camera

\* The steepest pitch the camera may take: one degree short of straight up
PitchLimit == FSub[HalfPI, RadiansPerDegree]

PitchWithinLimit(pitch) ==
  /\ ~IsNaN(pitch)
  /\ ~FLess[pitch, FNeg[PitchLimit]]
  /\ ~FGreater[pitch, PitchLimit]

\* The mouse motions that turned the camera, by their place in the history
Rotations == { i \in 1..Len(history) :
                 history[i].op = "input" /\ history[i].rotated # << >> }

\* C26: after every mouse-motion rotation, whatever the pointer deltas and
\* the rotation the camera had, the pitch lies within
\* [-(HalfPI - RadiansPerDegree), +(HalfPI - RadiansPerDegree)] and the roll
\* is the roll the camera had; both as rotateCameraNode writes them and as
\* the node holds them when the event has been handled.
PitchStaysWithinLimit ==
  \A i \in Rotations :
    /\ PitchWithinLimit(history[i].rotated[1].x)
    /\ history[i].rotated[1].z = history[i].before.rotation.z
    /\ PitchWithinLimit(history[i].after.rotation.x)
    /\ history[i].after.rotation.z = history[i].before.rotation.z

\* Two mouse motions: the first left the pitch inside the limits, the second
\* would have taken it beyond straight up; the camera is rolled and orbits
\* its target
PitchStaysWithinLimitWitness ==
  /\ Len(history) = 2
  /\ Rotations = {1, 2}
  /\ history[1].before.rotation.z # Flt(0)
  /\ history[1].rotated[1].x # PitchLimit
  /\ history[1].rotated[1].x # history[1].before.rotation.x
  /\ history[2].rotated[1].x = PitchLimit
  /\ FGreater[FSub[history[2].before.rotation.x,
                   getYawAndPitchFromMouseMotion(ThirdPersonCameraController,
                     history[2].inputEvent.relative).y],
              HalfPI]
  /\ history[2].after.origin # history[2].before.origin

\* ------------------------------------------------------------------------ \*
\* The force of a controller tick

\* The ticks of the controller so far, by their place in the history
ControllerTicks == { i \in 1..Len(history) : history[i].op = "physics_process" }

\* The tick found both the input manager and the ActorPhysics
FoundBoth(h) ==
  /\ ~h.aborted
  /\ ~IsNullptr(h.actorPhysics)
  /\ \A k \in 1..Len(h.print) : h.print[k] # NoInputManagerMessage

\* Square of the length of a force's horizontal part
HorizontalSquare(force) == FAdd[FMul[force.x, force.x], FMul[force.z, force.z]]

\* Mass * (RunningSpeed / SecondsToFullSpeed) * controlFactor
AllowedForce(this, actorPhysics, controlFactor) ==
  FMul[FMul[actorPhysics.Mass, FDiv[this.RunningSpeed, this.SecondsToFullSpeed]],
       controlFactor]

\* The length of the change of velocity the tick asks for is a rational
\* number, so that the model's square root of it is exact
ExactLength(h) ==
  LET wx == FDiv[FSub[FMul[FSub[h.strength.move_right, h.strength.move_left],
                           h.before.RunningSpeed], h.actorPhysics.Velocity.x],
                 h.deltaSeconds]
      wz == FDiv[FSub[FMul[FSub[h.strength.move_backward, h.strength.move_forward],
                           h.before.RunningSpeed], h.actorPhysics.Velocity.z],
                 h.deltaSeconds]
      q == FAdd[FMul[wx, wx], FMul[wz, wz]]
  IN  IsSquare[q.n] /\ IsSquare[q.d]

\* One force, with no vertical part and no longer than allowed; where the
\* square root is rounded, no longer than allowed by more than the rounding
\* (Mass / SqrtDen)
OneBoundedForce(queued, allowed, mass, exact) ==
  /\ Len(queued) = 1
  /\ queued[1].y = Flt(0)
  /\ ~VIsNaN(queued[1])
  /\ exact => ~FGreater[HorizontalSquare(queued[1]), FMul[allowed, allowed]]
  /\ LET loose == FAdd[allowed, FDiv[mass, Flt(SqrtDen)]]
     IN  ~FGreater[HorizontalSquare(queued[1]), FMul[loose, loose]]

\* The tick h as it goes for a character in the air with the given
\* AirControlFactor
InTheAir(h, factor) ==
  controller_physics_process(
    [h.before EXCEPT !.currentState = "Air", !.AirControlFactor = factor,
                     !.inputManager = "Input"],
    h.actorPhysics, h.deltaSeconds, "Input", TRUE, h.strength, TRUE)

AirControlFactorSet == { Rat[1, 2], Flt(1) }

ForceOfEachTick ==
  \A i \in ControllerTicks :
    LET h == history[i]
    IN  /\ FoundBoth(h) =>
             /\ h.handler = "handleGroundMovement"
             /\ OneBoundedForce(h.queued,
                                AllowedForce(h.before, h.actorPhysics, Flt(1)),
                                h.actorPhysics.Mass, ExactLength(h))
             /\ \A factor \in AirControlFactorSet :
                  /\ InTheAir(h, factor).handler = "handleAirMovement"
                  /\ OneBoundedForce(InTheAir(h, factor).queued,
                                     AllowedForce(h.before, h.actorPhysics, factor),
                                     h.actorPhysics.Mass, ExactLength(h))
        /\ IsNullptr(h.actorPhysics) => h.queued = << >>

\* The step is a tick of the controller
ControllerTickStep ==
  /\ Len(history') = Len(history) + 1
  /\ history'[Len(history')].op = "physics_process"

\* What the tick queued, and nothing else, has reached the integrator
QueuedOnIntegrator ==
  LET h == history'[Len(history')]
  IN  IF FoundBoth(h)
        THEN actor' = [actor EXCEPT !.queuedForces = VAdd[@, h.queued[1]]]
        ELSE actor' = actor

\* C22: each controller tick that finds both the input manager and the
\* ActorPhysics queues exactly one force on the integrator; that force has no
\* vertical component and a magnitude of at most
\* Mass * (RunningSpeed / SecondsToFullSpeed) * controlFactor, controlFactor
\* being 1 on the ground and AirControlFactor in the air; a tick that does not
\* find the ActorPhysics queues nothing.
ControllerQueuesOneBoundedForce ==
  /\ []ForceOfEachTick
  /\ [][ControllerTickStep => QueuedOnIntegrator]_vars

\* A tick shortened its force to the allowed one, and the tick after it did
\* not find the ActorPhysics
ControllerForceWitness ==
  /\ Len(history) = 2
  /\ ControllerTicks = {1, 2}
  /\ FoundBoth(history[1])
  /\ history[1].queued[1].x # Flt(0)
  /\ history[1].queued[1].z # Flt(0)
  /\ HorizontalSquare(history[1].queued[1]) =
       FMul[AllowedForce(history[1].before, history[1].actorPhysics, Flt(1)),
            AllowedForce(history[1].before, history[1].actorPhysics, Flt(1))]
  /\ actor.queuedForces = history[1].queued[1]
  /\ IsNullptr(history[2].actorPhysics)
  /\ history[2].queued = << >>

\* ------------------------------------------------------------------------ \*
\* Gravity of a tick

\* GravityVector * Mass * GravityScale where the component is affected by
\* gravity, no force where it is not
GravityOf(this) ==
  IF this.IsAffectedByGravity
    THEN VMul[VMul[this.GravityVector, this.Mass], this.GravityScale]
    ELSE ZeroVector

\* C23: in every tick that is not skipped, GravityVector * Mass * GravityScale
\* is added to queuedForces once before the integration if
\* IsAffectedByGravity is set and nothing is added if it is not; the forces
\* other callers queued for the tick are kept, and the integration works on
\* the sum (the carry it leaves is half of sum / Mass * deltaSeconds).
GravityQueuedOnce ==
  JustIntegrated =>
    /\ Last.before.queuedForces = SumArgs("QueueForce", Last.calls)
    /\ Last.gravitated =
         [Last.before EXCEPT !.queuedForces = VAdd[@, GravityOf(Last.before)]]
    /\ VMul[Last.integrated.midPointVelocity, FMul[Flt(2), Last.before.Mass]] =
         VMul[VAdd[SumArgs("QueueForce", Last.calls), GravityOf(Last.before)],
              Last.deltaSeconds]

\* A tick under gravity integrated a force another component had queued
\* together with the force of gravity
GravityQueuedOnceWitness ==
  /\ JustIntegrated
  /\ Last.before.IsAffectedByGravity
  /\ ~IsZero(SumArgs("QueueForce", Last.calls))
  /\ Last.gravitated.queuedForces # Last.before.queuedForces
  /\ Last.gravitated.queuedForces # GravityOf(Last.before)
  /\ ~IsZero(Last.integrated.midPointVelocity)

\* ------------------------------------------------------------------------ \*
\* Pushing into an obstacle

\* Every tick so far that integrated found the actor at rest on the floor or
\* left it there: gravity is its only force, nothing was queued, and the
\* engine reported no vertical velocity
PushedIntoFloor ==
  /\ Integrated
  /\ IsZero(Integrations[1].before.Velocity)
  /\ \A i \in 1..Len(Integrations) :
       /\ Integrations[i].kinematicBody = "floor"
       /\ Integrations[i].before.IsAffectedByGravity
       /\ Integrations[i].calls = << >>
       /\ Integrations[i].reportedVelocity.y = Flt(0)

\* |F/m| along the vertical axis for the force of gravity
GravityAcceleration(this) == FAbs[FMul[this.GravityVector.y, this.GravityScale]]

\* The duration of the tick before the last one; none before the first
PrevDeltaSeconds == IF IntegratedTwice THEN Prev.deltaSeconds ELSE Flt(0)

\* C24 as stated: while gravity pushes the actor into the floor, the recorded
\* vertical velocity is zero after every tick and the vertical velocity
\* attempted in a tick is at most (F/m) * dt, dt being the tick's duration.
PushedVelocityBoundedByTick ==
  (JustIntegrated /\ PushedIntoFloor) =>
    /\ actor.Velocity.y = Flt(0)
    /\ ~FGreater[FAbs[FDiv[Last.translation.y, Last.deltaSeconds]],
                 FMul[GravityAcceleration(Last.before), Last.deltaSeconds]]

\* C24 amended: ... the vertical velocity attempted in a tick is at most
\* (F/m) times the mean of that tick's duration and the duration of the tick
\* before it; it does not grow with the number of ticks.
PushedVelocityBounded ==
  (JustIntegrated /\ PushedIntoFloor) =>
    /\ actor.Velocity.y = Flt(0)
    /\ ~FGreater[FAbs[FDiv[Last.translation.y, Last.deltaSeconds]],
                 FMul[GravityAcceleration(Last.before),
                      FDiv[FAdd[PrevDeltaSeconds, Last.deltaSeconds], Flt(2)]]]

\* The second tick of an actor lying on the floor attempted a fall as fast as
\* the bound allows
PushedVelocityWitness ==
  /\ JustIntegrated
  /\ PushedIntoFloor
  /\ IntegratedTwice
  /\ actor.Velocity.y = Flt(0)
  /\ Last.integrated.Velocity.y # Flt(0)
  /\ FAbs[Last.integrated.Velocity.y] =
       FMul[GravityAcceleration(Last.before),
            FDiv[FAdd[Prev.deltaSeconds, Last.deltaSeconds], Flt(2)]]

\* ------------------------------------------------------------------------ \*
\* The component held back by obstacles: the engine ticks it, and the
\* engine's move answers a velocity that is not the one attempted

\* Velocities the component is found with
MovingSet ==
  { Vector3(Flt(1), Flt(-1), Rat[1, 2]),
    Vector3(Rat[1, 160], Rat[1, 160], Rat[1, 160]),
    Vector3(Flt(1), Flt(0), Flt(0)),
    ZeroVector }

Init_Obstacles ==
  /\ actor \in { [ActorPhysics(FALSE, g, Flt(2), h) EXCEPT !.Velocity = v] :
                   g \in GravitySet, h \in BOOLEAN, v \in MovingSet }
  /\ calls = << >>
  /\ history = << >>
  /\ ncalls = 0
  /\ controller = CharacterController
  /\ cameraNode = NewSpatial

Obstructed_Tick ==
  /\ Len(history) < MaxTicks
  /\ \E deltaSeconds \in DeltaSet, kinematicBody \in Obstructed \cup {"free"} :
       \E r \in { physics_process(actor, deltaSeconds, kinematicBody) } :
         /\ actor' = r.this
         /\ history' = Append(history,
              [ op |-> "tick",
                deltaSeconds |-> deltaSeconds,
                kinematicBody |-> kinematicBody,
                before |-> actor,
                calls |-> calls,
                gravitated |-> r.gravitated,
                integrated |-> r.integrated,
                translation |-> r.translation,
                moved |-> r.moved,
                reportedVelocity |-> r.reportedVelocity,
                print |-> r.print ])
  /\ UNCHANGED <<calls, ncalls, controller, cameraNode>>

Next_Obstacles == Obstructed_Tick

Spec_Obstacles == Init_Obstacles /\ [][Next_Obstacles]_vars

\* ------------------------------------------------------------------------ \*
\* Drift of the recorded velocity

\* Every component of the velocity is at or above the zero threshold
NoneBelowZeroThreshold(v) == \A axis \in Axes : ~BelowZeroThreshold(v[axis])

\* In every tick so far nothing was queued, the carry was zero and the engine
\* reported a velocity within epsilon of the recorded one, none of its
\* components below the zero threshold
OnlyDrift ==
  \A i \in 1..Len(Integrations) :
    /\ QueuesEmpty(Integrations[i].gravitated)
    /\ IsZero(Integrations[i].before.midPointVelocity)
    /\ ~ExceedsEpsilon(Integrations[i].before.Velocity, Integrations[i].reportedVelocity)
    /\ NoneBelowZeroThreshold(Integrations[i].reportedVelocity)

\* The recorded velocity is the one the run began with
NoDecay == (Integrated /\ OnlyDrift) => actor.Velocity = Integrations[1].before.Velocity

\* The velocity as reported, its components below the zero threshold cleared
Cleared(v) ==
  [axis \in Axes |-> IF BelowZeroThreshold(v[axis]) THEN Flt(0) ELSE v[axis]]

\* C25 as stated: over consecutive ticks with nothing queued and a zero carry
\* in which the engine reports velocities within epsilon of the recorded one,
\* none of their components below the zero threshold, the recorded velocity
\* stays what it was; and a reported velocity farther away than epsilon
\* becomes the recorded velocity in that same tick.
DriftSuppressedFarTakenOver ==
  /\ NoDecay
  /\ (JustIntegrated /\ ExceedsEpsilon(Last.integrated.Velocity, Last.reportedVelocity)) =>
       actor.Velocity = Last.reportedVelocity

\* C25 amended: ... and a reported velocity farther away than epsilon becomes
\* the recorded velocity in that same tick, with those of its components that
\* are below the zero threshold set to zero.
DriftSuppressedFarCleared ==
  /\ NoDecay
  /\ (JustIntegrated /\ ExceedsEpsilon(Last.integrated.Velocity, Last.reportedVelocity)) =>
       actor.Velocity = Cleared(Last.reportedVelocity)

\* Two ticks up a slope, each reported a little slower than recorded, and the
\* recorded velocity is still the first
NoDecayWitness ==
  /\ JustIntegrated
  /\ IntegratedTwice
  /\ OnlyDrift
  /\ Prev.reportedVelocity # Prev.before.Velocity
  /\ Last.reportedVelocity # Last.before.Velocity
  /\ actor.Velocity = Integrations[1].before.Velocity

\* A tick up a slope was reported a little slower than recorded and left the
\* recorded velocity alone; the next, in mud, was reported far slower and was
\* taken over, a component of it cleared
DriftThenFarWitness ==
  /\ JustIntegrated
  /\ IntegratedTwice
  /\ QueuesEmpty(Prev.gravitated)
  /\ Prev.reportedVelocity # Prev.before.Velocity
  /\ ~ExceedsEpsilon(Prev.before.Velocity, Prev.reportedVelocity)
  /\ Last.before.Velocity = Prev.before.Velocity
  /\ ExceedsEpsilon(Last.integrated.Velocity, Last.reportedVelocity)
  /\ Cleared(Last.reportedVelocity) # Last.reportedVelocity
  /\ actor.Velocity = Cleared(Last.reportedVelocity)

\* ------------------------------------------------------------------------ \*
\* Queues across skipped ticks

\* The component as the tick of this record found it, were its queues the sums
\* of what was queued since the integration before, gravity added to the
\* forces if enabled
WithSumsQueued(h) ==
  LET sums == [h.before EXCEPT !.queuedForces = SumArgs("QueueForce", h.calls),
                               !.queuedImpulses = SumArgs("QueueImpulse", h.calls),
                               !.queuedMovement = SumArgs("QueueMovement", h.calls)]
  IN  IF sums.IsAffectedByGravity THEN WithGravityQueued(sums) ELSE sums

\* The tick just made integrated the sums of what was queued since the
\* integration before it, skipped ticks in between or not
IntegratesTheSums ==
  JustIntegrated =>
    LET integration == Integrate(WithSumsQueued(Last), Last.deltaSeconds)
    IN  /\ Last.integrated = integration.this
        /\ Last.translation = integration.translation

\* The step leaves the three queues and the log of the calls as they are
KeepsQueues ==
  /\ actor'.queuedForces = actor.queuedForces
  /\ actor'.queuedImpulses = actor.queuedImpulses
  /\ actor'.queuedMovement = actor.queuedMovement
  /\ calls' = calls

\* C27: forces, impulses and movements queued while ticks are being skipped
\* are neither cleared nor integrated by the skipped ticks; they keep
\* accumulating, and the first tick that is not skipped integrates the sum of
\* everything queued since the last integration.
SkippedTicksKeepQueues ==
  /\ [][SkippedStep => KeepsQueues]_vars
  /\ []IntegratesTheSums

\* Something was queued, a tick was skipped, and the tick after it integrated
\* what had been queued before the skipped one
SkippedTicksKeepQueuesWitness ==
  /\ JustIntegrated
  /\ Len(history) = 2
  /\ history[1].op = "skipped"
  /\ history[1].calls # << >>
  /\ Last.calls = history[1].calls
  /\ ~QueuesEmpty(Last.before)
  /\ Last.integrated # Integrate(
       IF Last.before.IsAffectedByGravity
         THEN WithGravityQueued([Last.before EXCEPT !.queuedForces = ZeroVector,
                                                    !.queuedImpulses = ZeroVector,
                                                    !.queuedMovement = ZeroVector])
         ELSE [Last.before EXCEPT !.queuedForces = ZeroVector,
                                  !.queuedImpulses = ZeroVector,
                                  !.queuedMovement = ZeroVector],
       Last.deltaSeconds).this
  /\ QueuesEmpty(actor)

\* ------------------------------------------------------------------------ \*
\* The midpoint carry across the reconciliation

\* The velocity the integration of this record left, from the velocity and
\* the carry it was given
CarriedInto(h, carry) ==
  VAdd[VAdd[VAdd[h.before.Velocity, carry],
            VDiv[h.gravitated.queuedImpulses, h.before.Mass]],
       h.integrated.midPointVelocity]

\* C28: the reconciler and the step-climb recharge never modify the midpoint
\* carry: the carry one tick's integration stored is still there after the
\* tick, and the next integration adds it to the velocity unchanged, also when
\* the reconciler has replaced or zeroed the recorded velocity in between.
CarrySurvivesReconciliation ==
  /\ JustIntegrated => actor.midPointVelocity = Last.integrated.midPointVelocity
  /\ (JustIntegrated /\ IntegratedTwice) =>
       /\ Last.before.midPointVelocity = Prev.integrated.midPointVelocity
       /\ Last.integrated.Velocity = CarriedInto(Last, Prev.integrated.midPointVelocity)

\* Gravity pushed the actor into the floor; the reconciler replaced the
\* velocity of that tick, and the tick after it added the carry of that tick
CarrySurvivesWitness ==
  /\ JustIntegrated
  /\ IntegratedTwice
  /\ Prev.kinematicBody = "floor"
  /\ ~IsZero(Prev.integrated.midPointVelocity)
  /\ Last.before.Velocity # Prev.integrated.Velocity
  /\ Last.before.midPointVelocity = Prev.integrated.midPointVelocity
  /\ Last.integrated.Velocity = CarriedInto(Last, Prev.integrated.midPointVelocity)
  /\ Last.integrated.Velocity # VAdd[VAdd[Last.before.Velocity,
                                          VDiv[Last.gravitated.queuedImpulses, Last.before.Mass]],
                                     Last.integrated.midPointVelocity]

\* ------------------------------------------------------------------------ \*
\* The deadband of the reconciler

\* The square of a component if it is below the zero threshold, else zero
SquareIfBelow(c) == IF BelowZeroThreshold(c) THEN FMul[c, c] ELSE Flt(0)

\* The squared distance of v and w, less the squares of the components of w
\* that are below the zero threshold
DistanceBeyondCleared(v, w) ==
  LET dx == FSub[v.x, w.x]
      dy == FSub[v.y, w.y]
      dz == FSub[v.z, w.z]
      sq == FAdd[FAdd[FMul[dx, dx], FMul[dy, dy]], FMul[dz, dz]]
      cleared == FAdd[FAdd[SquareIfBelow(w.x), SquareIfBelow(w.y)], SquareIfBelow(w.z)]
  IN  FSub[sq, cleared]

\* C29: after every updateVelocity call with updateHorizontalVelocity set, the
\* squared distance between the recorded and the reported velocity is at most
\* VelocityEpsilon plus the squares of the reported components that were
\* below the zero threshold.
RecordedWithinDeadband ==
  (Applied("updateVelocity") /\ LastOp.updateHorizontalVelocity) =>
    LET beyond == DistanceBeyondCleared(actor.Velocity, LastOp.newVelocity)
    IN  beyond.n <= beyond.d \div 10000

\* A reported velocity within the deadband left the recorded one where it
\* was, at a distance from the reported one
RecordedWithinDeadbandWitness ==
  /\ Applied("updateVelocity")
  /\ LastOp.updateHorizontalVelocity
  /\ ~ExceedsEpsilon(LastOp.before.Velocity, LastOp.newVelocity)
  /\ DistanceBeyondCleared(actor.Velocity, LastOp.newVelocity).n > 0
  /\ \E axis \in Axes :
       /\ actor.Velocity[axis] # LastOp.newVelocity[axis]
       /\ actor.Velocity[axis] = LastOp.before.Velocity[axis]
       /\ actor.Velocity[axis] # Flt(0)

\* ------------------------------------------------------------------------ \*
\* The controller and the integrator in one scene: each physics frame the
\* engine ticks the CharacterController and then the ActorPhysics, with the
\* same deltaSeconds; the player holds the input, nothing stands in the way
\* and gravity is off

\* Physics frames of a run
MaxFrames == 3

FrameDeltaSet == { Rat[1, 2], Rat[1, 4] }

Init_Frames ==
  /\ controller \in { [CharacterController EXCEPT !.SecondsToFullSpeed = s] :
                        s \in {Rat[3, 20], Flt(1)} }
  /\ actor \in { ActorPhysics(FALSE, g, Flt(2), h) : g \in GravitySet, h \in BOOLEAN }
  /\ calls = << >>
  /\ history = << >>
  /\ ncalls = 0
  /\ cameraNode = NewSpatial

\* The controller's turn: the frame begins
ControllersTurn ==
  IF history = << >> THEN TRUE ELSE history[Len(history)].op = "tick"

Frame_Controller ==
  /\ ControllersTurn
  /\ Len(Integrations) < MaxFrames
  /\ \E deltaSeconds \in IF history = << >> THEN FrameDeltaSet
                                            ELSE {history[1].deltaSeconds},
        strength \in IF history = << >> THEN StrengthSet
                                        ELSE {history[1].strength} :
       \E r \in { controller_physics_process(
                     controller, actor, deltaSeconds, "Input", TRUE, strength, TRUE) } :
         /\ controller' = r.this
         /\ actor' = r.actorPhysics
         /\ calls' = calls \o [i \in 1..Len(r.queued) |->
                                 [op |-> "QueueForce", arg |-> r.queued[i]]]
         /\ ncalls' = ncalls + Len(r.queued)
         /\ history' = Append(history,
              [ op |-> "physics_process",
                before |-> controller,
                actorPhysics |-> actor,
                deltaSeconds |-> deltaSeconds,
                strength |-> strength,
                handler |-> r.handler,
                queued |-> r.queued,
                print |-> r.print,
                aborted |-> r.aborted ])
  /\ UNCHANGED cameraNode

Frame_Tick ==
  /\ ~ControllersTurn
  /\ \E r \in { physics_process(actor, history[1].deltaSeconds, "free") } :
       /\ actor' = r.this
       /\ history' = Append(history,
            [ op |-> "tick",
              deltaSeconds |-> history[1].deltaSeconds,
              kinematicBody |-> "free",
              before |-> actor,
              calls |-> calls,
              gravitated |-> r.gravitated,
              integrated |-> r.integrated,
              translation |-> r.translation,
              moved |-> r.moved,
              reportedVelocity |-> r.reportedVelocity,
              print |-> r.print ])
  /\ calls' = << >>
  /\ UNCHANGED <<ncalls, controller, cameraNode>>

Next_Frames ==
  \/ Frame_Controller
  \/ Frame_Tick

Spec_Frames == Init_Frames /\ [][Next_Frames]_vars

\* ------------------------------------------------------------------------ \*
\* Acceleration towards the target velocity

\* Square of the target speed: the input's strength times RunningSpeed
TargetSquare ==
  LET strength == history[1].strength
      x == FMul[FSub[strength.move_right, strength.move_left], controller.RunningSpeed]
      z == FMul[FSub[strength.move_backward, strength.move_forward],
                controller.RunningSpeed]
  IN  FAdd[FMul[x, x], FMul[z, z]]

\* C30: with the controller and the integrator ticking in sequence from rest,
\* a constant input, a constant deltaSeconds, gravity disabled and nothing in
\* the way, the recorded horizontal speed never exceeds the target speed
\* (input strength * RunningSpeed) in any tick.
NoOvershoot ==
  JustIntegrated => ~FGreater[HorizontalSquare(actor.Velocity), TargetSquare]

====
